---- MODULE Spec2Model ----
(***************************************************************************)
(* Model of the comment / caption analytics of container-codes-2:          *)
(* CommentAnalyzer (src/src/app/youtube_scraper.py), the stand-alone       *)
(* analysis script (examples/.../analyze_comments.py), the caption         *)
(* processing and CaptionAnalyzer of                                       *)
(* src/src/app/youtube_caption_downloader.py, and the combined analysis of *)
(* src/scripts/youtube-content-scraper.py; and of the fetching code:       *)
(* scrape_comments and get_video_info of YouTubeCommentScraper, the        *)
(* transcript requests of YouTubeCaptionDownloader, and the runs of the    *)
(* two scripts that call them.                                             *)
(*                                                                         *)
(* Text is modelled as TLA+ strings; every Python string operation the     *)
(* analyses use (lower, strip, `in`, re.findall, re.sub) is an operator    *)
(* computed character by character.  Python floats are modelled as exact   *)
(* fractions [num, den].  A Python dict is a record, {} is the empty       *)
(* function <<>>, a list is a sequence.                                    *)
(***************************************************************************)
EXTENDS Integers, Sequences, FiniteSets, TLC

VARIABLES
    comments,    \* CommentAnalyzer.comments: the record collection
    transcript,  \* raw transcript entries handed to _process_transcript
    full_text,   \* CaptionAnalyzer.full_text
    last,        \* name of the analysis that ran last ("init" before any)
    args,        \* the arguments of that call
    ret,         \* the value that call returned
    pc,          \* where the fetching code stands ("idle" when none runs)
    scrape,      \* the locals of scrape_comments
    yielded,     \* the records scrape_comments has yielded, in order
    log,         \* the external requests and rate-limit delays, in order
    outcome,     \* how the fetching call ended ("running" until it has)
    download,    \* the locals of download_all_captions and what it returns
    run          \* the results of a script's run, its files and exit status

\* the state of the analyses
analysis_vars == <<comments, transcript, full_text, last, args, ret>>

\* the state of the fetching code
fetch_vars == <<pc, scrape, yielded, log, outcome, download, run>>

vars == <<analysis_vars, fetch_vars>>

----------------------------------------------------------------------------
(* Bounds of the model *)

MaxComments == 3
MaxLikes == 1
MaxTopN == 2
MaxTopicComments == 2
MaxTopicLikes == 4
MaxSuggestions == 2
MaxEntries == 2
MaxStart == 2
MaxDuration == 1
MaxQuestions == 22
MaxHealthLikes == 6
MaxHealthComments == 2
MaxReportComments == 2
MaxCaptionEntries == 2
MaxCaptionComments == 1
MaxLongComments == 2
MaxPages == 2
MaxThreads == 2
MaxReplies == 2
MaxScraped == 3
MaxLanguages == 2
RunMaxComments == 1

----------------------------------------------------------------------------
(* Characters *)

LowerLetters ==
    {"a","b","c","d","e","f","g","h","i","j","k","l","m",
     "n","o","p","q","r","s","t","u","v","w","x","y","z"}

UpperToLower ==
    [A |-> "a", B |-> "b", C |-> "c", D |-> "d", E |-> "e", F |-> "f",
     G |-> "g", H |-> "h", I |-> "i", J |-> "j", K |-> "k", L |-> "l",
     M |-> "m", N |-> "n", O |-> "o", P |-> "p", Q |-> "q", R |-> "r",
     S |-> "s", T |-> "t", U |-> "u", V |-> "v", W |-> "w", X |-> "x",
     Y |-> "y", Z |-> "z"]

Digits == {"0","1","2","3","4","5","6","7","8","9"}

\* the characters the regex class \w matches
WordChars == LowerLetters \cup DOMAIN UpperToLower \cup Digits \cup {"_"}

\* the characters str.strip() and the regex class \s treat as whitespace
Whitespace == {" ", "\t"}

CharAt(s, i) == SubSeq(s, i, i)

RestFrom(s, i) == SubSeq(s, i, Len(s))

\* str.lower()
RECURSIVE lower(_)
lower(s) ==
    IF s = "" THEN ""
    ELSE IF Len(s) = 1
         THEN IF s \in DOMAIN UpperToLower THEN UpperToLower[s] ELSE s
         ELSE lower(SubSeq(s, 1, Len(s) \div 2))
                  \o lower(RestFrom(s, Len(s) \div 2 + 1))

RECURSIVE lstrip(_)
lstrip(s) ==
    IF s # "" /\ CharAt(s, 1) \in Whitespace THEN lstrip(RestFrom(s, 2)) ELSE s

RECURSIVE rstrip(_)
rstrip(s) ==
    IF s # "" /\ CharAt(s, Len(s)) \in Whitespace
    THEN rstrip(SubSeq(s, 1, Len(s) - 1)) ELSE s

\* str.strip()
strip(s) == rstrip(lstrip(s))

\* the Python expression `sub in s`
Contains(sub, s) ==
    \E i \in 1..(Len(s) - Len(sub) + 1) : SubSeq(s, i, i + Len(sub) - 1) = sub

\* any(indicator in text for indicator in indicators)
AnyIn(indicators, text) ==
    \E k \in 1..Len(indicators) : Contains(indicators[k], text)

\* ' '.join(parts)
RECURSIVE join(_)
join(parts) ==
    IF parts = <<>> THEN ""
    ELSE IF Len(parts) = 1 THEN parts[1]
    ELSE parts[1] \o " " \o join(Tail(parts))

\* text[:n] + '...' if len(text) > n else text
Preview(text, n) == IF Len(text) > n THEN SubSeq(text, 1, n) \o "..." ELSE text

----------------------------------------------------------------------------
(* Sorting: list.sort(key=..., reverse=True) and sorted(..., reverse=True)  *)
(* are stable: equal keys keep their relative order.                       *)

\* a sort that reverses the input order of equal keys
StableBefore_TiesReversed(keys, j, i) ==
    keys[j] > keys[i] \/ (keys[j] = keys[i] /\ j > i)

\* does position j come before position i in the sorted list
StableBefore(keys, j, i) ==
    keys[j] > keys[i] \/ (keys[j] = keys[i] /\ j < i)

\* the permutation that sorts keys in descending order
SortOrderDesc(keys) ==
    LET rank(i) == 1 + Cardinality({j \in 1..Len(keys) : StableBefore(keys, j, i)})
    IN  [r \in 1..Len(keys) |-> CHOOSE i \in 1..Len(keys) : rank(i) = r]

\* items.sort(key=lambda x: keys, reverse=True)
SortByDesc(items, keys) ==
    LET p == SortOrderDesc(keys) IN [r \in 1..Len(items) |-> items[p[r]]]

Min(a, b) == IF a < b THEN a ELSE b

\* items[:n] for n >= 0
Take(items, n) == SubSeq(items, 1, IF n < Len(items) THEN n ELSE Len(items))

----------------------------------------------------------------------------
(* QuestionExtractor *)

\* question_indicators of CommentAnalyzer.find_questions
question_indicators ==
    <<"?", "how", "what", "why", "when", "where", "which", "can you", "could you">>

\* question_indicators of extract_questions
script_question_indicators ==
    <<"?", "how", "what", "why", "when", "where", "which", "can you">>

QuestionPreviewLen == 200

\* the test `'?' in text and any(indicator in text_lower ...)`
IsQuestion(text, indicators) ==
    Contains("?", text) /\ AnyIn(indicators, lower(text))

\* the indices of the comments the loop appends, in input order
QuestionIndices(cs, indicators) ==
    SelectSeq([i \in 1..Len(cs) |-> i],
              LAMBDA i : IsQuestion(strip(cs[i].text), indicators))

\* CommentAnalyzer.find_questions(top_n)
find_questions(cs, top_n) ==
    LET idx == QuestionIndices(cs, question_indicators)
        questions == [k \in 1..Len(idx) |->
                        [text     |-> Preview(strip(cs[idx[k]].text), QuestionPreviewLen),
                         author   |-> cs[idx[k]].author,
                         likes    |-> cs[idx[k]].like_count,
                         is_reply |-> cs[idx[k]].is_reply]]
        keys == [k \in 1..Len(idx) |-> questions[k].likes]
    IN  Take(SortByDesc(questions, keys), top_n)

\* extract_questions(comments)
extract_questions(cs) ==
    LET idx == QuestionIndices(cs, script_question_indicators)
        questions == [k \in 1..Len(idx) |->
                        [question |-> strip(cs[idx[k]].text),
                         author   |-> cs[idx[k]].author,
                         likes    |-> cs[idx[k]].like_count]]
        keys == [k \in 1..Len(idx) |-> questions[k].likes]
    IN  SortByDesc(questions, keys)

----------------------------------------------------------------------------
(* TextStatistics *)

\* the maximal runs of \w characters of s, left to right
RECURSIVE WordRunsFrom(_, _)
WordRunsFrom(s, cur) ==
    LET flush == IF cur = "" THEN <<>> ELSE <<cur>>
    IN  IF s = "" THEN flush
        ELSE IF CharAt(s, 1) \in WordChars
             THEN WordRunsFrom(RestFrom(s, 2), cur \o CharAt(s, 1))
             ELSE flush \o WordRunsFrom(RestFrom(s, 2), "")

WordRuns(s) == WordRunsFrom(s, "")

\* re.findall(r'\b\w{n,}\b', s): a match starts and ends on a word boundary
\* and \w{n,} is greedy, so the matches are the maximal runs of length >= n
findall_words(s, n) == SelectSeq(WordRuns(s), LAMBDA w : Len(w) >= n)

\* the keys of Counter(words), in insertion (first seen) order
RECURSIVE FirstSeen(_, _)
FirstSeen(words, seen) ==
    IF words = <<>> THEN <<>>
    ELSE IF Head(words) \in seen THEN FirstSeen(Tail(words), seen)
    ELSE <<Head(words)>> \o FirstSeen(Tail(words), seen \cup {Head(words)})

Occurrences(w, words) == Cardinality({i \in 1..Len(words) : words[i] = w})

\* Counter(words).items(): (word, count) pairs in insertion order
Counter(words) ==
    LET ks == FirstSeen(words, {})
    IN  [k \in 1..Len(ks) |-> <<ks[k], Occurrences(ks[k], words)>>]

\* a ranking that truncates but does not sort
most_common_Unsorted(items, n) == Take(items, n)

\* Counter.most_common(n): by count descending, ties in insertion order
most_common(items, n) ==
    Take(SortByDesc(items, [k \in 1..Len(items) |-> items[k][2]]), n)

\* stop_words of CommentAnalyzer.extract_keywords
stop_words ==
    {"this", "that", "with", "have", "will", "from", "they", "been",
     "were", "said", "each", "which", "their", "time", "would", "there",
     "what", "when", "where", "your", "just", "like", "dont", "really",
     "think", "know", "good", "great", "thanks", "thank", "video",
     "youtube", "channel", "subscribe", "comment", "comments"}

\* stop_words of CaptionAnalyzer.extract_key_topics
caption_stop_words ==
    {"this", "that", "with", "have", "will", "from", "they", "been",
     "were", "said", "each", "which", "their", "time", "would", "there",
     "what", "when", "where", "your", "just", "like", "dont", "really",
     "think", "know", "good", "great", "going", "want", "need", "make",
     "right", "here", "come", "well", "also", "look", "now"}

\* ' '.join(c['text'].lower() for c in self.comments)
all_text(cs) == join([i \in 1..Len(cs) |-> lower(cs[i].text)])

\* CommentAnalyzer.extract_keywords(min_word_length, top_n)
extract_keywords(cs, min_word_length, top_n) ==
    LET words == findall_words(all_text(cs), min_word_length)
        filtered_words ==
            SelectSeq(words, LAMBDA w : w \notin stop_words /\ Len(w) > min_word_length)
    IN  most_common(Counter(filtered_words), top_n)

\* CaptionAnalyzer.extract_key_topics(min_word_length, top_n)
extract_key_topics(text, min_word_length, top_n) ==
    IF text = "" THEN <<>>
    ELSE LET words == findall_words(lower(text), min_word_length)
             filtered_words == SelectSeq(words, LAMBDA w : w \notin caption_stop_words)
         IN  most_common(Counter(filtered_words), top_n)

----------------------------------------------------------------------------
(* EngagementScorer *)

\* a Python float, kept exact
Frac(n, d) == [num |-> n, den |-> d]

ZeroDivisionError == [raised |-> "ZeroDivisionError"]

Raised(v) == DOMAIN v = {"raised"}

\* the Python expression a / b
Div(a, b) == IF b = 0 THEN ZeroDivisionError ELSE Frac(a, b)

RECURSIVE SumSeq(_)
SumSeq(xs) == IF xs = <<>> THEN 0 ELSE Head(xs) + SumSeq(Tail(xs))

\* a total that leaves the replies out
total_likes_TopLevelOnly(cs) ==
    SumSeq([i \in 1..Len(cs) |-> IF cs[i].is_reply THEN 0 ELSE cs[i].like_count])

\* sum(c['like_count'] for c in comments)
total_likes(cs) == SumSeq([i \in 1..Len(cs) |-> cs[i].like_count])

\* CommentAnalyzer.__init__: top_level_comments and replies
top_level_comments(cs) == SelectSeq(cs, LAMBDA c : ~c.is_reply)

replies(cs) == SelectSeq(cs, LAMBDA c : c.is_reply)

\* Counter(c['author'] for c in comments)
author_counts(cs) == Counter([i \in 1..Len(cs) |-> cs[i].author])

\* the records liked more than the mean
high_engagement_count_AboveMean(cs, avg_likes) ==
    Cardinality({i \in 1..Len(cs) :
        cs[i].like_count * avg_likes.den > avg_likes.num})

\* len([c for c in self.comments if c['like_count'] > avg_likes * 2])
high_engagement_count(cs, avg_likes) ==
    Cardinality({i \in 1..Len(cs) :
        cs[i].like_count * avg_likes.den > avg_likes.num * 2})

\* a scorer that divides without testing for the empty collection
get_basic_stats_Unguarded(cs) ==
    LET total_comments == Len(cs)
        avg_likes == Div(total_likes(cs), total_comments)
        lengths == [i \in 1..Len(cs) |-> Len(cs[i].text)]
        avg_length == Div(SumSeq(lengths), Len(lengths))
    IN  IF Raised(avg_likes) THEN avg_likes
        ELSE IF Raised(avg_length) THEN avg_length
        ELSE [total_comments        |-> total_comments,
              top_level_comments    |-> Len(top_level_comments(cs)),
              replies               |-> Len(replies(cs)),
              total_likes           |-> total_likes(cs),
              avg_likes             |-> avg_likes,
              avg_comment_length    |-> avg_length,
              high_engagement_count |-> high_engagement_count(cs, avg_likes),
              most_active_authors   |-> most_common(author_counts(cs), 5),
              reply_ratio           |-> Div(Len(replies(cs)), total_comments)]

\* CommentAnalyzer.get_basic_stats()
get_basic_stats(cs) ==
    IF cs = <<>> THEN <<>>
    ELSE LET total_comments == Len(cs)
             avg_likes == Div(total_likes(cs), total_comments)
             lengths == [i \in 1..Len(cs) |-> Len(cs[i].text)]
             avg_length == Div(SumSeq(lengths), Len(lengths))
         IN  IF Raised(avg_likes) THEN avg_likes
             ELSE IF Raised(avg_length) THEN avg_length
             ELSE [total_comments        |-> total_comments,
                   top_level_comments    |-> Len(top_level_comments(cs)),
                   replies               |-> Len(replies(cs)),
                   total_likes           |-> total_likes(cs),
                   avg_likes             |-> avg_likes,
                   avg_comment_length    |-> avg_length,
                   high_engagement_count |-> high_engagement_count(cs, avg_likes),
                   most_active_authors   |-> most_common(author_counts(cs), 5),
                   reply_ratio           |->
                       IF total_comments > 0
                       THEN Div(Len(replies(cs)), total_comments) ELSE Frac(0, 1)]

\* basic_statistics(comments)
basic_statistics(cs) ==
    LET total_comments == Len(cs)
        avg_likes == IF total_comments > 0
                     THEN Div(total_likes(cs), total_comments) ELSE Frac(0, 1)
    IN  [total_comments     |-> total_comments,
         top_level_comments |-> Len(top_level_comments(cs)),
         replies            |-> Len(replies(cs)),
         total_likes        |-> total_likes(cs),
         avg_likes          |-> avg_likes,
         top_authors        |-> most_common(author_counts(cs), 10)]

----------------------------------------------------------------------------
(* TopicSuggester *)

\* container_topics of suggest_future_topics, in dict order
container_topics ==
    << [topic |-> "kubernetes", suggestions |->
          <<"Kubernetes networking deep dive", "K8s security best practices",
            "Helm chart optimization", "Kubernetes troubleshooting">>],
       [topic |-> "docker", suggestions |->
          <<"Docker vs Podman migration guide", "Docker security hardening",
            "Multi-stage Docker builds", "Docker networking explained">>],
       [topic |-> "podman", suggestions |->
          <<"Podman rootless containers", "Podman pods vs containers",
            "Podman systemd integration", "Podman desktop vs CLI">>],
       [topic |-> "security", suggestions |->
          <<"Container security scanning", "Runtime security with Falco",
            "Image vulnerability management", "Zero-trust containers">>],
       [topic |-> "networking", suggestions |->
          <<"Container networking fundamentals", "Service mesh with Istio",
            "Load balancing containers", "CNI plugins comparison">>],
       [topic |-> "buildah", suggestions |->
          <<"Buildah vs Docker build", "Scriptable container builds",
            "Multi-arch builds with Buildah", "OCI image creation">>],
       [topic |-> "skopeo", suggestions |->
          <<"Image registry management", "Container image signing",
            "Air-gapped image workflows", "Image inspection tools">>],
       [topic |-> "production", suggestions |->
          <<"Production container deployment", "Container monitoring setup",
            "Logging best practices", "Auto-scaling containers">>],
       [topic |-> "performance", suggestions |->
          <<"Container performance tuning", "Resource optimization",
            "Memory management in containers", "Container benchmarking">>],
       [topic |-> "orchestration", suggestions |->
          <<"Container orchestration comparison", "Docker Swarm vs Kubernetes",
            "Nomad for containers", "Container scheduling">>],
       [topic |-> "monitoring", suggestions |->
          <<"Prometheus for containers", "Grafana dashboards",
            "Container metrics collection", "Alerting strategies">>],
       [topic |-> "storage", suggestions |->
          <<"Container persistent storage", "Volume management",
            "Storage drivers comparison", "Data backup strategies">>],
       [topic |-> "cicd", suggestions |->
          <<"Container CI/CD pipelines", "GitOps workflows",
            "Automated testing", "Deployment strategies">>],
       [topic |-> "compose", suggestions |->
          <<"Docker Compose advanced features", "Multi-environment setups",
            "Compose vs Kubernetes", "Development workflows">> ] >>

\* tech_patterns of suggest_future_topics, in dict order
tech_patterns ==
    << [tech |-> "ai",            title |-> "AI and Machine Learning in Containers"],
       [tech |-> "serverless",    title |-> "Serverless Containers with Knative"],
       [tech |-> "wasm",          title |-> "WebAssembly and Container Runtime"],
       [tech |-> "edge",          title |-> "Edge Computing with Containers"],
       [tech |-> "arm",           title |-> "ARM/M1 Container Development"],
       [tech |-> "windows",       title |-> "Windows Container Development"],
       [tech |-> "microservices", title |-> "Microservices Architecture Patterns"],
       [tech |-> "observability", title |-> "Container Observability Stack"],
       [tech |-> "gitops",        title |-> "GitOps Deployment Workflows"],
       [tech |-> "helm",          title |-> "Advanced Helm Chart Development"] >>

HighInterest == 10

SuggestionsPerTopic == 2

QuestionsScanned == 20

SourceQuestionLen == 100

\* does the regex assertion \b hold between s[i] and s[i+1], 0 <= i <= Len(s)
IsBoundary(s, i) ==
    LET before == i >= 1 /\ CharAt(s, i) \in WordChars
        after  == i < Len(s) /\ CharAt(s, i + 1) \in WordChars
    IN  before # after

\* len(re.findall(rf'\b{word}\b', s)) for a word made of word characters
count_mentions(word, s) ==
    Cardinality({i \in 1..(Len(s) - Len(word) + 1) :
        /\ IsBoundary(s, i - 1)
        /\ SubSeq(s, i, i + Len(word) - 1) = word
        /\ IsBoundary(s, i + Len(word) - 1)})

RECURSIVE ProdSeq(_)
ProdSeq(xs) == IF xs = <<>> THEN 1 ELSE Head(xs) * ProdSeq(Tail(xs))

\* integers ordered as the fractions fs are (over their common denominator)
ScaledKeys(fs) ==
    LET d == ProdSeq([k \in 1..Len(fs) |-> fs[k].den])
    IN  [k \in 1..Len(fs) |-> fs[k].num * (d \div fs[k].den)]

\* lines 464-485: the topics mentioned, by interest score descending
mentioned_topics(cs) ==
    LET text == all_text(cs)
        texts == [i \in 1..Len(cs) |-> lower(cs[i].text)]
        counts == [k \in 1..Len(container_topics) |->
                     count_mentions(container_topics[k].topic, text)]
        hit == SelectSeq([k \in 1..Len(container_topics) |-> k],
                         LAMBDA k : counts[k] > 0)
        entry(k) ==
            LET topic == container_topics[k].topic
                relevant == SelectSeq([i \in 1..Len(cs) |-> i],
                                      LAMBDA i : Contains(topic, texts[i]))
                avg_engagement ==
                    IF relevant # <<>>
                    THEN Div(SumSeq([j \in 1..Len(relevant) |-> cs[relevant[j]].like_count]),
                             Len(relevant))
                    ELSE Frac(0, 1)
            IN  [topic          |-> topic,
                 mentions       |-> counts[k],
                 avg_engagement |-> avg_engagement,
                 suggestions    |-> container_topics[k].suggestions,
                 interest_score |->
                     Frac(counts[k] * (avg_engagement.den + avg_engagement.num),
                          avg_engagement.den)]
        topics == [j \in 1..Len(hit) |-> entry(hit[j])]
    IN  SortByDesc(topics,
                   ScaledKeys([j \in 1..Len(topics) |-> topics[j].interest_score]))

\* a tagging that takes a score of exactly the threshold as high
priority_of_AtLeast(interest_score) ==
    IF interest_score.num >= HighInterest * interest_score.den THEN "High" ELSE "Medium"

\* 'High' if topic_data['interest_score'] > 10 else 'Medium'
priority_of(interest_score) ==
    IF interest_score.num > HighInterest * interest_score.den THEN "High" ELSE "Medium"

RECURSIVE Flatten(_)
Flatten(lists) == IF lists = <<>> THEN <<>> ELSE Head(lists) \o Flatten(Tail(lists))

\* lines 487-497: up to two titles for each of the top_n // 2 leading topics
video_suggestions(cs, top_n) ==
    LET chosen == Take(mentioned_topics(cs), top_n \div 2)
        titles(t) == Take(t.suggestions, SuggestionsPerTopic)
    IN  Flatten([k \in 1..Len(chosen) |->
                   [j \in 1..Len(titles(chosen[k])) |->
                      [title          |-> titles(chosen[k])[j],
                       based_on_topic |-> chosen[k].topic,
                       mentions       |-> chosen[k].mentions,
                       avg_engagement |-> chosen[k].avg_engagement,
                       priority       |-> priority_of(chosen[k].interest_score)]]])

\* the shape of an entry of emerging_topics
emerging_entry(q, p) ==
    [title           |-> p.title,
     based_on_topic  |-> p.tech,
     mentions        |-> 1,
     avg_engagement  |-> q.likes,
     priority        |-> "Emerging",
     source_question |-> SubSeq(q.text, 1, Min(SourceQuestionLen, Len(q.text))) \o "..."]

\* a scan that reads every question, not only the leading ones
emerging_topics_AllQuestions(cs, suggested) ==
    LET questions == find_questions(cs, Len(cs))
        taken == {suggested[k].title : k \in 1..Len(suggested)}
        found(q) ==
            LET hits == SelectSeq(tech_patterns,
                            LAMBDA p : Contains(p.tech, lower(q.text))
                                       /\ p.title \notin taken)
            IN  [j \in 1..Len(hits) |-> emerging_entry(q, hits[j])]
    IN  Flatten([k \in 1..Len(questions) |-> found(questions[k])])

\* lines 499-528: the emerging technologies the leading questions mention
emerging_topics(cs, suggested) ==
    LET questions == find_questions(cs, QuestionsScanned)
        taken == {suggested[k].title : k \in 1..Len(suggested)}
        found(q) ==
            LET text_lower == lower(q.text)
                hits == SelectSeq(tech_patterns,
                            LAMBDA p : Contains(p.tech, text_lower)
                                       /\ p.title \notin taken)
            IN  [j \in 1..Len(hits) |-> emerging_entry(q, hits[j])]
    IN  Flatten([k \in 1..Len(questions) |-> found(questions[k])])

\* a sort key that puts the emerging suggestions last
suggestion_keys_EmergingLast(all) ==
    LET eng == ScaledKeys([k \in 1..Len(all) |->
                   IF all[k].priority = "Emerging"
                   THEN Frac(all[k].avg_engagement, 1)
                   ELSE all[k].avg_engagement])
        width == 1 + SumSeq(eng)
        rank(p) == IF p = "High" THEN 2 ELSE IF p = "Medium" THEN 1 ELSE 0
    IN  [k \in 1..Len(all) |-> rank(all[k].priority) * width + eng[k]]

\* the sort key (priority == 'High', priority == 'Emerging', avg_engagement)
\* as one integer: the tuples compare first on the priority, then on the
\* engagement
suggestion_keys(all) ==
    LET eng == ScaledKeys([k \in 1..Len(all) |->
                   IF all[k].priority = "Emerging"
                   THEN Frac(all[k].avg_engagement, 1)   \* a like count
                   ELSE all[k].avg_engagement])
        width == 1 + SumSeq(eng)
        rank(p) == IF p = "High" THEN 2 ELSE IF p = "Emerging" THEN 1 ELSE 0
    IN  [k \in 1..Len(all) |-> rank(all[k].priority) * width + eng[k]]

\* CommentAnalyzer.suggest_future_topics(top_n)
suggest_future_topics(cs, top_n) ==
    LET suggested == video_suggestions(cs, top_n)
        all_suggestions == suggested \o emerging_topics(cs, suggested)
    IN  Take(SortByDesc(all_suggestions, suggestion_keys(all_suggestions)), top_n)

----------------------------------------------------------------------------
(* AudienceLevelClassifier *)

beginner_indicators ==
    <<"beginner", "new to", "just started", "tutorial", "how to", "basic", "simple">>

intermediate_indicators ==
    <<"implement", "production", "best practice", "experience", "recommend", "migrate">>

advanced_indicators ==
    <<"architecture", "performance", "optimize", "scale", "enterprise", "custom", "extend">>

\* the keys of the levels dict, in insertion order
LevelOrder == <<"beginner", "intermediate", "advanced">>

\* a classifier that tests the advanced indicators before the beginner ones
level_of_AdvancedFirst(text_lower) ==
    IF AnyIn(advanced_indicators, text_lower) THEN "advanced"
    ELSE IF AnyIn(beginner_indicators, text_lower) THEN "beginner"
    ELSE IF AnyIn(intermediate_indicators, text_lower) THEN "intermediate"
    ELSE "none"

\* the if / elif / elif chain of the loop: the level a comment is counted in
level_of(text_lower) ==
    IF AnyIn(beginner_indicators, text_lower) THEN "beginner"
    ELSE IF AnyIn(advanced_indicators, text_lower) THEN "advanced"
    ELSE IF AnyIn(intermediate_indicators, text_lower) THEN "intermediate"
    ELSE "none"

\* is fraction a greater than fraction b (positive denominators)
FracGreater(a, b) == a.num * b.den > b.num * a.den

\* the level of the smallest share
dominant_level_of_Least(percentages) ==
    LevelOrder[CHOOSE k \in 1..Len(LevelOrder) :
        /\ \A j \in 1..Len(LevelOrder) :
              ~FracGreater(percentages[LevelOrder[k]], percentages[LevelOrder[j]])
        /\ \A j \in 1..(k - 1) :
              FracGreater(percentages[LevelOrder[j]], percentages[LevelOrder[k]])]

\* max(percentages.keys(), key=lambda k: percentages[k]): the first key, in
\* dict order, with the largest value
dominant_level_of(percentages) ==
    LevelOrder[CHOOSE k \in 1..Len(LevelOrder) :
        /\ \A j \in 1..Len(LevelOrder) :
              ~FracGreater(percentages[LevelOrder[j]], percentages[LevelOrder[k]])
        /\ \A j \in 1..(k - 1) :
              FracGreater(percentages[LevelOrder[k]], percentages[LevelOrder[j]])]

DefaultLevel_Beginner == "beginner"

\* the dominant level reported when no comment is classified
DefaultLevel == "intermediate"

\* CommentAnalyzer.analyze_audience_level()
analyze_audience_level(cs) ==
    IF cs = <<>> THEN <<>>
    ELSE LET found == [i \in 1..Len(cs) |-> level_of(lower(cs[i].text))]
             levels == [l \in {"beginner", "intermediate", "advanced"} |->
                          Cardinality({i \in 1..Len(cs) : found[i] = l})]
             total == levels["beginner"] + levels["intermediate"] + levels["advanced"]
             percentages == [l \in DOMAIN levels |-> Frac(levels[l] * 100, total)]
         IN  IF total = 0
             THEN [dominant_level |-> DefaultLevel, distribution |-> levels]
             ELSE [dominant_level   |-> dominant_level_of(percentages),
                   distribution     |-> percentages,
                   total_classified |-> total]

----------------------------------------------------------------------------
(* CaptionSegmentProcessor *)

\* where the first match of `open.*?close` at the start of s ends, 0 if s
\* does not start with a match ('.' does not match a newline)
MatchEnd(s, open, close) ==
    IF Len(s) < Len(open) \/ SubSeq(s, 1, Len(open)) # open THEN 0
    ELSE LET ends == {e \in (Len(open) + Len(close))..Len(s) :
                        /\ SubSeq(s, e - Len(close) + 1, e) = close
                        /\ \A i \in (Len(open) + 1)..(e - Len(close)) :
                              CharAt(s, i) # "\n"}
         IN  IF ends = {} THEN 0 ELSE CHOOSE e \in ends : \A f \in ends : e <= f

\* re.sub(r'open.*?close', '', s)
RECURSIVE remove_spans(_, _, _)
remove_spans(s, open, close) ==
    IF s = "" THEN ""
    ELSE LET e == MatchEnd(s, open, close)
         IN  IF e > 0 THEN remove_spans(RestFrom(s, e + 1), open, close)
             ELSE CharAt(s, 1) \o remove_spans(RestFrom(s, 2), open, close)

\* re.sub(r'\s+', ' ', s)
RECURSIVE collapse_whitespace(_)
collapse_whitespace(s) ==
    IF s = "" THEN ""
    ELSE IF CharAt(s, 1) \in Whitespace
         THEN " " \o collapse_whitespace(lstrip(s))
         ELSE CharAt(s, 1) \o collapse_whitespace(RestFrom(s, 2))

\* YouTubeCaptionDownloader._clean_caption_text(text)
_clean_caption_text(text) ==
    strip(collapse_whitespace(
        remove_spans(remove_spans(remove_spans(text, "[", "]"), "(", ")"), ">>", "<<")))

DigitChars == <<"0", "1", "2", "3", "4", "5", "6", "7", "8", "9">>

RECURSIVE Decimal(_)
Decimal(n) ==
    IF n < 10 THEN DigitChars[n + 1] ELSE Decimal(n \div 10) \o DigitChars[(n % 10) + 1]

\* the format specification :02d
TwoDigits(n) == IF n < 10 THEN "0" \o Decimal(n) ELSE Decimal(n)

\* YouTubeCaptionDownloader._seconds_to_timestamp(seconds)
_seconds_to_timestamp(seconds) ==
    LET hours == seconds \div 3600
        remainder == seconds % 3600
    IN  TwoDigits(hours) \o ":" \o TwoDigits(remainder \div 60)
            \o ":" \o TwoDigits(remainder % 60)

\* len(s.split()): the runs of characters that are not whitespace
RECURSIVE count_words(_)
count_words(s) ==
    IF s = "" THEN 0
    ELSE IF CharAt(s, 1) \in Whitespace THEN count_words(lstrip(s))
    ELSE IF \E i \in 1..Len(s) : CharAt(s, i) \in Whitespace
         THEN 1 + count_words(RestFrom(s,
                   CHOOSE i \in 1..Len(s) :
                       /\ CharAt(s, i) \in Whitespace
                       /\ \A j \in 1..(i - 1) : CharAt(s, j) \notin Whitespace))
         ELSE 1

\* the last element instead of the largest
MaxSeq_Last(xs) == xs[Len(xs)]

RECURSIVE MaxSeq(_)
MaxSeq(xs) ==
    IF Len(xs) = 1 THEN xs[1]
    ELSE LET m == MaxSeq(Tail(xs)) IN IF xs[1] >= m THEN xs[1] ELSE m

\* YouTubeCaptionDownloader._process_transcript(transcript); the second
\* parameter, preserve_formatting, is not read by the method
_process_transcript(tr) ==
    IF tr = <<>>
    THEN [full_text  |-> "",
          segments   |-> <<>>,
          statistics |-> [total_duration         |-> 0,
                          total_segments         |-> 0,
                          average_segment_length |-> 0,
                          words_per_minute       |-> 0]]
    ELSE LET kept == SelectSeq(tr, LAMBDA entry : strip(entry.text) # "")
             segments ==
                 [k \in 1..Len(kept) |->
                    [start         |-> kept[k].start,
                     duration      |-> kept[k].duration,
                     end           |-> kept[k].start + kept[k].duration,
                     text          |-> _clean_caption_text(strip(kept[k].text)),
                     original_text |-> strip(kept[k].text),
                     timestamp     |-> _seconds_to_timestamp(kept[k].start)]]
             text == join([k \in 1..Len(segments) |-> segments[k].text])
             total_duration ==
                 IF segments # <<>>
                 THEN MaxSeq([k \in 1..Len(segments) |-> segments[k].end]) ELSE 0
             total_words == IF text # "" THEN count_words(text) ELSE 0
         IN  [full_text  |-> text,
              segments   |-> segments,
              statistics |->
                 [total_duration         |-> total_duration,
                  total_segments         |-> Len(segments),
                  total_words            |-> total_words,
                  total_characters       |-> Len(text),
                  average_segment_length |->
                      IF segments # <<>> THEN Div(Len(segments), Len(segments))
                      ELSE Frac(0, 1),
                  words_per_minute       |->
                      IF total_duration > 0
                      THEN Div(total_words * 60, total_duration)
                      ELSE Frac(0, 1),
                  duration_formatted     |-> _seconds_to_timestamp(total_duration)]]

----------------------------------------------------------------------------
(* Engagement patterns *)

ValueError == [raised |-> "ValueError"]

\* str.replace(old, new) for a one-character old
RECURSIVE replace(_, _, _)
replace(s, old, new) ==
    IF s = "" THEN ""
    ELSE (IF CharAt(s, 1) = old THEN new ELSE CharAt(s, 1))
             \o replace(RestFrom(s, 2), old, new)

IsDigits(s) == \A i \in 1..Len(s) : CharAt(s, i) \in Digits

\* int(s) for a string of digits
RECURSIVE ToInt(_)
ToInt(s) ==
    IF s = "" THEN 0
    ELSE ToInt(SubSeq(s, 1, Len(s) - 1)) * 10
             + (CHOOSE n \in 0..9 : DigitChars[n + 1] = CharAt(s, Len(s)))

DaysInMonth(year, month) ==
    IF month = 2
    THEN IF year % 4 = 0 /\ (year % 100 # 0 \/ year % 400 = 0) THEN 29 ELSE 28
    ELSE IF month \in {4, 6, 9, 11} THEN 30 ELSE 31

\* is s two digits that read as a number below limit
TwoDigitsBelow(s, limit) == Len(s) = 2 /\ IsDigits(s) /\ ToInt(s) < limit

\* a time of day HH, HH:MM, HH:MM:SS or HH:MM:SS.ffffff
IsTimeOfDay(s) ==
    /\ Len(s) >= 2
    /\ TwoDigitsBelow(SubSeq(s, 1, 2), 24)
    /\ Len(s) > 2 =>
          /\ Len(s) >= 5
          /\ CharAt(s, 3) = ":"
          /\ TwoDigitsBelow(SubSeq(s, 4, 5), 60)
          /\ Len(s) > 5 =>
                /\ Len(s) >= 8
                /\ CharAt(s, 6) = ":"
                /\ TwoDigitsBelow(SubSeq(s, 7, 8), 60)
                /\ Len(s) > 8 =>
                      /\ CharAt(s, 9) \in {".", ","}
                      /\ IsDigits(RestFrom(s, 10))

\* a calendar date YYYY-MM-DD
IsDate(s) ==
    /\ Len(s) = 10
    /\ IsDigits(SubSeq(s, 1, 4)) /\ CharAt(s, 5) = "-"
    /\ IsDigits(SubSeq(s, 6, 7)) /\ CharAt(s, 8) = "-"
    /\ IsDigits(SubSeq(s, 9, 10))
    /\ ToInt(SubSeq(s, 1, 4)) >= 1
    /\ ToInt(SubSeq(s, 6, 7)) \in 1..12
    /\ ToInt(SubSeq(s, 9, 10))
          \in 1..DaysInMonth(ToInt(SubSeq(s, 1, 4)), ToInt(SubSeq(s, 6, 7)))

\* datetime.fromisoformat(s), of which the analyses read the hour, or
\* ValueError, for the extended format YYYY-MM-DD[*HH[:MM[:SS[.f]]][+HH:MM]]
\* of the records' timestamps: the time of day ends at the first sign and
\* the UTC offset after it is written like a time of day
fromisoformat(s) ==
    IF Len(s) < 10 \/ ~IsDate(SubSeq(s, 1, 10)) THEN ValueError
    ELSE IF Len(s) = 10 THEN [hour |-> 0]
    ELSE LET rest == RestFrom(s, 12)
             signs == {i \in 1..Len(rest) : CharAt(rest, i) \in {"+", "-"}}
             sign == IF signs = {} THEN Len(rest) + 1
                     ELSE CHOOSE i \in signs : \A j \in signs : i <= j
             time == SubSeq(rest, 1, sign - 1)
         IN  IF /\ IsTimeOfDay(time)
                /\ signs # {} => IsTimeOfDay(RestFrom(rest, sign + 1))
             THEN [hour |-> ToInt(SubSeq(time, 1, 2))]
             ELSE ValueError

\* a loop that files a comment it cannot date under hour 0
parsed_time_DefaultMidnight(c) ==
    IF "published_at" \notin DOMAIN c THEN [hour |-> 0]
    ELSE LET dt == fromisoformat(replace(c.published_at, "Z", "+00:00"))
         IN  IF Raised(dt) THEN [hour |-> 0] ELSE dt

\* the try block of the loop: the hour of a comment, or the exception that
\* makes the loop skip it (KeyError for a record without the field)
parsed_time(c) ==
    IF "published_at" \notin DOMAIN c THEN [raised |-> "KeyError"]
    ELSE fromisoformat(replace(c.published_at, "Z", "+00:00"))

\* hourly_distribution: the Counter of the hours of the comments whose
\* timestamp parses
hourly_distribution(cs) ==
    LET parsed == SelectSeq([i \in 1..Len(cs) |-> parsed_time(cs[i])],
                            LAMBDA dt : ~Raised(dt))
    IN  Counter([k \in 1..Len(parsed) |-> parsed[k].hour])

\* a ranking that sorts the comment list itself
comments_after_sorted_InPlace(cs) ==
    SortByDesc(cs, [i \in 1..Len(cs) |-> cs[i].like_count])

\* the comment list after sorted(comments, ...): sorted() builds a new list
\* and leaves its argument as it is
comments_after_sorted(cs) == cs

\* sorted(comments, key=lambda x: x['like_count'], reverse=True)
by_likes(cs) == SortByDesc(cs, [i \in 1..Len(cs) |-> cs[i].like_count])

\* CommentAnalyzer.analyze_engagement_patterns()
analyze_engagement_patterns(cs) ==
    IF cs = <<>> THEN <<>>
    ELSE LET likes_data == by_likes(cs)
             top_comments == Take(by_likes(cs), 5)
             hours == hourly_distribution(cs)
         IN  [max_likes    |-> likes_data[1].like_count,
              median_likes |-> likes_data[(Len(likes_data) \div 2) + 1].like_count,
              top_comments |->
                  [k \in 1..Len(top_comments) |->
                     [author       |-> top_comments[k].author,
                      likes        |-> top_comments[k].like_count,
                      text_preview |-> Preview(top_comments[k].text, 100)]],
              peak_hours   |-> IF hours # <<>> THEN most_common(hours, 3) ELSE <<>>]

\* what engagement_analysis(comments) prints
engagement_analysis(cs) ==
    IF cs = <<>> THEN "No comments to analyze."
    ELSE LET hourly_comments == hourly_distribution(cs)
             top_comments == Take(Take(by_likes(cs), 10), 3)
         IN  [peak_hours  |-> IF hourly_comments # <<>>
                              THEN most_common(hourly_comments, 5) ELSE <<>>,
              most_liked  |->
                  [k \in 1..Len(top_comments) |->
                     [author |-> top_comments[k].author,
                      likes  |-> top_comments[k].like_count,
                      text   |-> Preview(top_comments[k].text, 80)]]]

\* request_keywords of identify_content_requests
request_keywords ==
    <<"tutorial", "explain", "show how", "guide", "demo", "example",
      "walkthrough", "deep dive", "comparison", "please", "would love",
      "can you do", "next video", "cover", "topic", "about">>

\* CommentAnalyzer.identify_content_requests(top_n)
identify_content_requests(cs, top_n) ==
    LET idx == SelectSeq([i \in 1..Len(cs) |-> i],
                         LAMBDA i : AnyIn(request_keywords, lower(cs[i].text)))
        requests ==
            [k \in 1..Len(idx) |->
               [text             |-> Preview(cs[idx[k]].text, 150),
                author           |-> cs[idx[k]].author,
                likes            |-> cs[idx[k]].like_count,
                matched_keywords |->
                    SelectSeq(request_keywords,
                              LAMBDA kw : Contains(kw, lower(cs[idx[k]].text)))]]
    IN  Take(SortByDesc(requests, [k \in 1..Len(idx) |-> requests[k].likes]), top_n)

----------------------------------------------------------------------------
(* InsightsReport *)

\* a classification that takes a mean of exactly 5 as excellent
health_status_AtLeast(avg_likes) ==
    IF avg_likes.num >= 5 * avg_likes.den THEN "Excellent"
    ELSE IF avg_likes.num > 2 * avg_likes.den THEN "Good"
    ELSE "Needs Improvement"

\* lines 663-671 of generate_insights_summary
health_status(avg_likes) ==
    IF avg_likes.num > 5 * avg_likes.den THEN "Excellent"
    ELSE IF avg_likes.num > 2 * avg_likes.den THEN "Good"
    ELSE "Needs Improvement"

\* lines 229-237 of generate_summary
summary_health(avg_likes) ==
    IF avg_likes.num > 5 * avg_likes.den THEN "Excellent"
    ELSE IF avg_likes.num > 2 * avg_likes.den THEN "Good"
    ELSE "Needs Improvement"

NoComments == "No comments available for analysis."

\* what generate_summary(comments) prints
generate_summary(cs) ==
    IF cs = <<>> THEN NoComments
    ELSE LET total_comments == Len(cs)
             avg_likes == Div(total_likes(cs), total_comments)
             most_liked == by_likes(cs)[1]
             high_engagement ==
                 Cardinality({i \in 1..Len(cs) :
                     cs[i].like_count * avg_likes.den > avg_likes.num * 2})
         IN  [total_comments  |-> total_comments,
              total_likes     |-> total_likes(cs),
              avg_likes       |-> avg_likes,
              high_engagement |-> high_engagement,
              high_share      |-> Div(high_engagement * 100, total_comments),
              most_liked      |-> [likes  |-> most_liked.like_count,
                                   author |-> most_liked.author],
              health          |-> summary_health(avg_likes)]

\* str.title() of one lower-case word
title(word) ==
    (CHOOSE u \in DOMAIN UpperToLower : UpperToLower[u] = CharAt(word, 1))
        \o RestFrom(word, 2)

\* x[:80] followed by '...' if len(x) > 80
Shortened(text) == SubSeq(text, 1, Min(80, Len(text))) \o (IF Len(text) > 80 THEN "..." ELSE "")

\* an assembly that reports the peak hours before the commenters
assemble_HoursBeforeCommenters(basic, topics, questions, requests, commenters, hours, future, audience, health) ==
    basic \o topics \o questions \o requests \o hours \o commenters
        \o future \o audience \o health

\* the order in which generate_insights_summary appends its sections
assemble(basic, topics, questions, requests, commenters, hours, future, audience, health) ==
    basic \o topics \o questions \o requests \o commenters \o hours
        \o future \o audience \o health

\* a section that is appended when its condition holds
SectionIf(cond, section) == IF cond THEN <<section>> ELSE <<>>

\* lines 585-675 of generate_insights_summary: the report as the list of its
\* sections, each with the values its lines show
summary_of(stats, keywords, questions, engagement, requests, topic_suggestions, audience_level) ==
    LET classified ==
            IF "total_classified" \in DOMAIN audience_level
            THEN audience_level.total_classified ELSE 0
        shown(items) ==
            [k \in 1..Len(items) |->
               [text   |-> Shortened(items[k].text),
                author |-> items[k].author,
                likes  |-> items[k].likes]]
    IN  IF Raised(stats) THEN stats
        ELSE IF DOMAIN stats = {} THEN NoComments
        ELSE assemble(
            <<[section               |-> "basic stats",
               total_comments        |-> stats.total_comments,
               top_level_comments    |-> stats.top_level_comments,
               replies               |-> stats.replies,
               reply_ratio           |-> stats.reply_ratio,
               total_likes           |-> stats.total_likes,
               avg_likes             |-> stats.avg_likes,
               high_engagement_count |-> stats.high_engagement_count,
               avg_comment_length    |-> stats.avg_comment_length]>>,
            SectionIf(keywords # <<>>,
                [section |-> "top topics", lines |-> Take(keywords, 8)]),
            SectionIf(questions # <<>>,
                [section |-> "top questions", lines |-> shown(Take(questions, 3))]),
            SectionIf(requests # <<>>,
                [section |-> "content requests", lines |-> shown(Take(requests, 3))]),
            SectionIf(stats.most_active_authors # <<>>,
                [section |-> "top commenters",
                 lines   |-> Take(stats.most_active_authors, 3)]),
            SectionIf("peak_hours" \in DOMAIN engagement /\ engagement.peak_hours # <<>>,
                [section |-> "peak hours", lines |-> engagement.peak_hours]),
            SectionIf(topic_suggestions # <<>>,
                [section |-> "suggested future topics",
                 lines   |->
                     LET first == Take(topic_suggestions, 6)
                     IN  [k \in 1..Len(first) |->
                            [priority       |-> first[k].priority,
                             title          |-> first[k].title,
                             mentions       |-> first[k].mentions,
                             based_on_topic |-> first[k].based_on_topic]]]),
            SectionIf(classified > 0,
                [section      |-> "audience level",
                 dominant     |-> title(audience_level.dominant_level),
                 distribution |-> audience_level.distribution,
                 focus        |->
                     IF audience_level.dominant_level = "beginner"
                     THEN "Step-by-step tutorials, basic concepts, getting started guides"
                     ELSE IF audience_level.dominant_level = "advanced"
                     THEN "Architecture deep-dives, performance optimization, enterprise use cases"
                     ELSE "Best practices, real-world examples, practical implementations"]),
            <<[section |-> "engagement health",
               status  |-> health_status(stats.avg_likes)]>>)

\* lines 577-583: the analyses generate_insights_summary gathers before it
\* writes anything
generate_insights_summary(cs) ==
    summary_of(get_basic_stats(cs),
               extract_keywords(cs, 4, 15),
               find_questions(cs, 5),
               analyze_engagement_patterns(cs),
               identify_content_requests(cs, 5),
               suggest_future_topics(cs, 8),
               analyze_audience_level(cs))

----------------------------------------------------------------------------
(* CaptionAnalyzer *)

\* the caption data download_captions builds from the processed transcript
caption_data_of(tr) ==
    LET processed_transcript == _process_transcript(tr)
    IN  [processed_text |-> processed_transcript.full_text,
         segments       |-> processed_transcript.segments,
         statistics     |-> processed_transcript.statistics]

\* the words the technical_patterns of find_technical_terms can match, in
\* the order sorted() gives them
technical_words ==
    <<"build", "ci/cd", "container", "containerize", "containerized",
      "containers", "deployment", "deployments", "docker", "dockerfile",
      "image", "images", "k8s", "kubernetes", "microservice", "microservices",
      "monitoring", "mount", "mounts", "namespace", "namespaces", "network",
      "networking", "orchestration", "pipeline", "pod", "podman", "pods",
      "port", "ports", "privilege", "registries", "registry", "rootless",
      "scaling", "security", "service", "services", "volume", "volumes">>

\* CaptionAnalyzer.find_technical_terms()
find_technical_terms(caption_data) ==
    LET text_lower == lower(caption_data.processed_text)
    IN  SelectSeq(technical_words, LAMBDA w : count_mentions(w, text_lower) > 0)

\* the alternatives of the three transition_patterns
transition_patterns ==
    << {"first", "second", "third", "next", "then", "finally", "lastly"},
       {"now", "so", "however", "but", "therefore", "because"},
       {"let's", "we'll", "we're going to"} >>

\* re.search(pattern, text) for one of the transition patterns
search(pattern, text) == \E w \in pattern : count_mentions(w, text) > 0

\* the sum of a list of fractions over their common denominator
SumFrac(fs) ==
    LET dens == [k \in 1..Len(fs) |-> fs[k].den]
        keys == ScaledKeys(fs)
    IN  Frac(SumSeq(keys), ProdSeq(dens))

\* CaptionAnalyzer.analyze_content_structure()
analyze_content_structure(caption_data) ==
    LET segments == caption_data.segments
        statistics == caption_data.statistics
        transitions ==
            Flatten([i \in 1..Len(segments) |->
                Flatten([p \in 1..Len(transition_patterns) |->
                    IF search(transition_patterns[p], lower(segments[i].text))
                    THEN <<[timestamp     |-> segments[i].timestamp,
                            text          |-> Take(segments[i].text, 100) \o "...",
                            segment_index |-> i - 1]>>
                    ELSE <<>>])])
        timed == SelectSeq(segments, LAMBDA seg : seg.duration > 0)
        rates ==
            [k \in 1..Len(timed) |->
                Frac(count_words(timed[k].text) * 60, timed[k].duration)]
        avg_rate ==
            IF rates # <<>>
            THEN LET total == SumFrac(rates)
                 IN  Frac(total.num, total.den * Len(rates))
            ELSE Frac(0, 1)
        content_density ==
            Div(count_words(caption_data.processed_text),
                IF "total_duration" \in DOMAIN statistics
                THEN statistics.total_duration ELSE 1)
    IN  IF segments = <<>> THEN <<>>
        ELSE IF Raised(content_density) THEN content_density
        ELSE [total_segments        |-> Len(segments),
              transitions_found     |-> Len(transitions),
              transition_points     |-> Take(transitions, 10),
              average_speaking_rate |-> avg_rate,
              content_density       |-> content_density]

NoCaptions == "No caption data available for analysis."

\* CaptionAnalyzer.generate_summary(): the report as the list of its
\* sections, or the exception that leaves the method
CaptionAnalyzer_generate_summary(caption_data) ==
    LET key_topics == extract_key_topics(caption_data.processed_text, 4, 10)
        technical_terms == find_technical_terms(caption_data)
        structure == analyze_content_structure(caption_data)
        stats == caption_data.statistics
    IN  IF caption_data.processed_text = "" THEN NoCaptions
        ELSE IF Raised(structure) THEN structure
        ELSE <<[section          |-> "statistics",
                duration         |-> stats.duration_formatted,
                total_words      |-> stats.total_words,
                words_per_minute |-> stats.words_per_minute,
                total_segments   |-> stats.total_segments]>>
             \o SectionIf(key_topics # <<>>,
                    [section |-> "topics", lines |-> Take(key_topics, 8)])
             \o SectionIf(technical_terms # <<>>,
                    [section |-> "technical terms",
                     lines   |-> Take(technical_terms, 15),
                     more    |-> IF Len(technical_terms) > 15
                                 THEN Len(technical_terms) - 15 ELSE 0])
             \o SectionIf(DOMAIN structure # {},
                    [section               |-> "structure",
                     transitions_found     |-> structure.transitions_found,
                     average_speaking_rate |-> structure.average_speaking_rate,
                     content_density       |-> structure.content_density])

----------------------------------------------------------------------------
(* Combined analysis *)

\* s.count(sub): the occurrences of sub in s that do not overlap
RECURSIVE str_count(_, _)
str_count(s, sub) ==
    IF Len(s) < Len(sub) THEN 0
    ELSE IF SubSeq(s, 1, Len(sub)) = sub
         THEN 1 + str_count(RestFrom(s, Len(sub) + 1), sub)
         ELSE str_count(RestFrom(s, 2), sub)

\* the read of a local name that no assignment has bound
UnboundLocalError == [raised |-> "UnboundLocalError"]

\* generate_combined_analysis(results, analysis_dir) of
\* youtube-content-scraper.py for the first caption data of the results
\* (<<>> when there is none) and the comments of comments.json: what it
\* writes to combined_analysis.txt, or how it ends without writing
generate_combined_analysis(caption_data, cs) ==
    IF DOMAIN caption_data = {} THEN [outcome |-> "no caption data"]
    ELSE
    LET caption_topics == extract_key_topics(caption_data.processed_text, 4, 15)
        technical_terms == find_technical_terms(caption_data)
        all_comment_text == lower(join([i \in 1..Len(cs) |-> cs[i].text]))
        counted ==
            [k \in 1..Len(caption_topics) |->
                <<caption_topics[k][1],
                  str_count(all_comment_text, lower(caption_topics[k][1]))>>]
        comment_mentions == SelectSeq(counted, LAMBDA m : m[2] > 0)
        stats == caption_data.statistics
        avg_likes ==
            IF cs # <<>> THEN Div(total_likes(cs), Len(cs)) ELSE Frac(0, 1)
        sorted_mentions ==
            SortByDesc(comment_mentions,
                       [k \in 1..Len(comment_mentions) |-> comment_mentions[k][2]])
        alignment_score ==
            IF comment_mentions # <<>>
            THEN IF caption_topics # <<>>
                 THEN Frac(Len(comment_mentions) * 100, Len(caption_topics))
                 ELSE Frac(0, 1)
            ELSE UnboundLocalError
    IN  IF Raised(alignment_score)
        THEN [outcome |-> "failed", error |-> alignment_score.raised]
        ELSE [outcome          |-> "saved",
              comments         |-> Len(cs),
              total_likes      |-> total_likes(cs),
              avg_likes        |-> avg_likes,
              mentions         |-> Take(sorted_mentions, 10),
              alignment_score  |-> alignment_score,
              technical_terms  |-> Take(technical_terms, 10),
              alignment        |->
                  IF alignment_score.num < 30 * alignment_score.den THEN "Low"
                  ELSE IF alignment_score.num > 70 * alignment_score.den
                       THEN "Excellent" ELSE "Good",
              engagement       |->
                  IF avg_likes.num < 2 * avg_likes.den THEN "interactive"
                  ELSE IF avg_likes.num > 5 * avg_likes.den
                       THEN "effective" ELSE "",
              pace             |->
                  LET wpm == IF "words_per_minute" \in DOMAIN stats
                             THEN stats.words_per_minute ELSE Frac(0, 1)
                  IN  IF wpm.num > 180 * wpm.den THEN "fast"
                      ELSE IF wpm.num < 120 * wpm.den THEN "slow" ELSE ""]

----------------------------------------------------------------------------
(* YouTubeCommentScraper *)

\* Python's None, as a comment id and as a page token (ids and tokens start at 1)
None == 0

\* the fetching code before it has started
scrape_start(max_comments) ==
    [max_comments       |-> max_comments,
     next_page_token    |-> None,
     comments_retrieved |-> 0,
     requests           |-> 0,
     next_id            |-> 1,
     status             |-> None]

\* download_all_captions before its first request (lines 232-241), or
\* download_captions_for_video asked for one language (mode "single")
download_start(mode, language_code, include_auto_generated) ==
    [mode                   |-> mode,
     language_code          |-> language_code,
     include_auto_generated |-> include_auto_generated,
     manual_captions        |-> <<>>,
     auto_generated         |-> <<>>,
     is_translatable        |-> FALSE,
     stage                  |-> "manual",
     i                      |-> 1,
     captions               |-> {},
     successful             |-> 0,
     failed                 |-> 0,
     errors                 |-> <<>>,
     attempts               |-> <<>>,
     error                  |-> FALSE]

\* the results dictionary of scrape_complete_content (lines 99-107) with the
\* script that runs, the phases it has entered, the files it has written
\* and the status the process exits with
run_start(script, api_key) ==
    [script      |-> script,
     api_key     |-> api_key,
     phase       |-> "none",
     phases      |-> <<>>,
     comments    |-> FALSE,
     captions    |-> FALSE,
     errors      |-> <<>>,
     files       |-> {},
     report      |-> FALSE,
     interrupted |-> FALSE,
     exit_status |-> 0]

FetchIdle ==
    /\ pc = "idle"
    /\ scrape = scrape_start(None)
    /\ yielded = <<>>
    /\ log = <<>>
    /\ outcome = "running"
    /\ download = download_start("all", "en", TRUE)
    /\ run = run_start("none", FALSE)

\* one external request, and the sleep of _rate_limit()
Request(api) == [event |-> "request", api |-> api]

Delay == [event |-> "delay", api |-> "time.sleep"]

\* YouTubeCommentScraper._parse_comment(comment_data) of the item with this id
_parse_comment(id) ==
    [comment_id        |-> id,
     is_reply          |-> FALSE,
     parent_comment_id |-> None]

\* a reply that is flagged but not linked to its thread
parse_reply_Unlinked(id, comment) ==
    [_parse_comment(id) EXCEPT !.is_reply = TRUE]

\* lines 174-176: the reply of the thread of comment
parse_reply(id, comment) ==
    [_parse_comment(id) EXCEPT !.is_reply = TRUE,
                               !.parent_comment_id = comment.comment_id]

\* `max_comments and comments_retrieved >= max_comments`
limit_reached(max_comments, comments_retrieved) ==
    max_comments # None /\ comments_retrieved >= max_comments

\* lines 170-178: the loop over the replies of one thread; st holds what has
\* been yielded, the next unused id and whether the generator has returned
RECURSIVE process_replies(_, _, _, _)
process_replies(n, comment, max_comments, st) ==
    IF n = 0 THEN st
    ELSE IF limit_reached(max_comments, Len(st.out)) THEN [st EXCEPT !.returned = TRUE]
    ELSE process_replies(n - 1, comment, max_comments,
             [st EXCEPT !.out = Append(st.out, parse_reply(st.next_id, comment)),
                        !.next_id = st.next_id + 1])

\* lines 161-178: the loop over the threads of one page; each item is the
\* number of replies of its thread (0: the item has no 'replies' key)
RECURSIVE process_items(_, _, _)
process_items(items, max_comments, st) ==
    IF items = <<>> \/ st.returned THEN st
    ELSE LET comment == _parse_comment(st.next_id)
             after == [st EXCEPT !.out = Append(st.out, comment),
                                 !.next_id = st.next_id + 1]
         IN  IF limit_reached(max_comments, Len(after.out))
             THEN [after EXCEPT !.returned = TRUE]
             ELSE process_items(Tail(items), max_comments,
                      process_replies(Head(items), comment, max_comments, after))

\* maxResults of the request
maxResults(max_comments, comments_retrieved) ==
    Min(100, IF max_comments # None THEN max_comments - comments_retrieved ELSE 100)

\* lines 184-189: what the handler of HttpError does with a status
on_http_error(status) == IF status = 403 THEN "break" ELSE "raise"

\* the loop goes on although the response has no token
more_pages_Always(next_page_token) == TRUE

\* lines 180-182: `if not next_page_token: break`
more_pages(next_page_token) == next_page_token # None

\* get_video_info (lines 101-130): what the call logs for an answer of the
\* API; an HttpError leaves before _rate_limit()
get_video_info_log(answer) ==
    IF answer = "HttpError" THEN <<Request("videos.list")>>
    ELSE <<Request("videos.list"), Delay>>

----------------------------------------------------------------------------
(* YouTubeCaptionDownloader: the transcript requests *)

\* download_caption (lines 169-213): what one call logs; get_transcript and
\* list_transcripts follow each other, and only a call that succeeds
\* reaches _rate_limit()
download_caption_log(answer) ==
    CASE answer = "get_transcript failed" -> <<Request("get_transcript")>>
      [] answer = "list_transcripts failed" ->
             <<Request("get_transcript"), Request("list_transcripts")>>
      [] OTHER -> <<Request("get_transcript"), Request("list_transcripts"), Delay>>

\* the auto-generated caption of every language is attempted
already_stored_Never(lang_code, captions) == FALSE

\* line 268: `if lang_code in all_captions['captions']`
already_stored(lang_code, captions) == lang_code \in captions

\* lines 244-281: the two loops of download_all_captions, as the position
\* of the caption that is downloaded next ("end" after the last)
RECURSIVE next_caption(_)
next_caption(d) ==
    CASE d.stage = "manual" ->
             IF d.i <= Len(d.manual_captions) THEN d
             ELSE IF d.include_auto_generated
                  THEN next_caption([d EXCEPT !.stage = "auto", !.i = 1])
                  ELSE [d EXCEPT !.stage = "end"]
      [] d.stage = "auto" ->
             IF d.i > Len(d.auto_generated) THEN [d EXCEPT !.stage = "end"]
             ELSE IF already_stored(d.auto_generated[d.i], d.captions)
                  THEN next_caption([d EXCEPT !.i = @ + 1])
                  ELSE d
      [] OTHER -> d

\* the language that download_caption is called for
lang_code_of(d) ==
    CASE d.mode = "single" -> d.language_code
      [] d.stage = "manual" -> d.manual_captions[d.i]
      [] OTHER -> d.auto_generated[d.i]

\* lines 250-259 and 274-281: the summary after one download_caption
download_summary(d, ok) ==
    LET lang_code == lang_code_of(d)
        attempt == [language_code |-> lang_code,
                    auto_generated |-> d.stage = "auto",
                    stored |-> ok]
    IN  IF ok
        THEN [d EXCEPT !.captions = @ \cup {lang_code},
                       !.successful = @ + 1,
                       !.attempts = Append(@, attempt),
                       !.i = @ + 1]
        ELSE [d EXCEPT !.failed = @ + 1,
                       !.errors = Append(@, lang_code),
                       !.attempts = Append(@, attempt),
                       !.i = @ + 1]

\* download_captions_for_video lines 631-634: one language; the result is
\* {'captions': {language_code: result}} or the error of download_caption
single_download(d, ok) ==
    IF ok THEN [d EXCEPT !.captions = {d.language_code}, !.stage = "end"]
    ELSE [d EXCEPT !.error = TRUE, !.stage = "end"]

----------------------------------------------------------------------------
(* The scripts: youtube-content-scraper.py and youtube-comment-scraper.py *)

\* the run enters a phase
enter(r, phase) == [r EXCEPT !.phase = phase, !.phases = Append(@, phase)]

\* scrape_complete_content: the phase after this one
next_phase(r) ==
    CASE r.phase = "video_info" -> IF r.api_key THEN "comments" ELSE "captions"
      [] r.phase = "comments" -> "captions"
      [] OTHER -> "summary"

\* the first call of a phase
first_call(phase) ==
    CASE phase = "comments" -> "get_video_info"
      [] phase = "captions" -> "list_transcripts"
      [] OTHER -> "create_summary_report"

\* the message its handler appends to results['errors'] (lines 124, 166,
\* 185 and 204)
error_of(phase) ==
    CASE phase = "video_info" -> "Failed to extract video info"
      [] phase = "comments" -> "Comment scraping failed"
      [] OTHER -> "Caption download failed"

\* the run after the call of its phase has ended: it returned, or it
\* failed: an Exception left it (or, for captions, it returned an 'error').
\* youtube-comment-scraper.py: main exits with 1 on an Exception (lines
\* 269-277).  scrape_complete_content: the failure is appended to
\* results['errors']; after a failure of the video info it returns (line
\* 125), otherwise the next phase starts.
finish(r, failed) ==
    CASE r.script = "none" -> r
      [] r.script = "comment-scraper" ->
             [r EXCEPT !.exit_status = IF failed THEN 1 ELSE 0]
      [] failed /\ r.phase = "video_info" ->
             [r EXCEPT !.errors = Append(@, error_of(r.phase))]
      [] failed ->
             enter([r EXCEPT !.errors = Append(@, error_of(r.phase))], next_phase(r))
      [] OTHER -> enter(r, next_phase(r))

\* a failure of any phase ends the run
goes_to_EndOnFailure(r, failed) == IF r.script = "none" THEN "done" ELSE IF failed \/ r.script = "comment-scraper" THEN "exit" ELSE first_call(next_phase(r))

\* and the place where it goes on
goes_to(r, failed) ==
    CASE r.script = "none" -> "done"
      [] r.script = "comment-scraper" -> "exit"
      [] failed /\ r.phase = "video_info" -> "exit"
      [] OTHER -> first_call(next_phase(r))

\* the calls during which the process waits for an external service
FetchCalls ==
    {"get_video_info", "scrape_comments", "list_transcripts",
     "get_available_transcripts", "download_caption"}

----------------------------------------------------------------------------
(* Inputs *)

Authors == {"ann", "bob"}

\* all lists of at most n elements of pool
ListsOf(pool, n) == UNION {[1..k -> pool] : k \in 0..n}

CommentsOf(texts, likes, authors, replyFlags) ==
    [text : texts, like_count : likes, author : authors, is_reply : replyFlags]

QuestionTexts == {" How? ", "ok?", "show me"}

QuestionPool == CommentsOf(QuestionTexts, 0..MaxLikes, {"ann"}, {FALSE})

\* a text of n characters
RECURSIVE Filler(_)
Filler(n) ==
    IF n = 0 THEN ""
    ELSE IF n = 1 THEN "a"
    ELSE Filler(n \div 2) \o Filler(n - n \div 2)

\* a question of n characters
QuestionOfLength(n) == "how " \o Filler(n - 5) \o "?"

\* questions at and just over the preview length, and a short one
LongQuestionTexts ==
    {QuestionOfLength(QuestionPreviewLen), QuestionOfLength(QuestionPreviewLen + 1), "why?"}

LongQuestionPool == CommentsOf(LongQuestionTexts, 0..MaxLikes, {"ann"}, {FALSE})

KeywordTexts == {"pods docker", "Podman docker podman", "this video", "what about images"}

KeywordPool == CommentsOf(KeywordTexts, {0}, {"ann"}, {FALSE})

CaptionTexts == {"", "pods docker", "now Look here", "Images and pods and images"}

MinWordLengths == {3, 4}

TopicTexts ==
    {"Docker docker docker docker docker", "dockerfile podman wasm?", "helm ai?"}

\* no likes, one like, many likes
TopicLikes == {0, 1, MaxTopicLikes}

TopicPool == CommentsOf(TopicTexts, TopicLikes, {"ann"}, {FALSE})

TopicComment(text, likes) ==
    [text |-> text, like_count |-> likes, author |-> "ann", is_reply |-> FALSE]

\* collections of 20 to MaxQuestions questions: a question about emerging
\* technologies, plain questions with one like each, and a last question
\* about another emerging technology
ManyQuestions ==
    {<<TopicComment("helm ai?", lf)>>
        \o [i \in 1..n |-> TopicComment("?", 1)]
        \o <<TopicComment("wasm?", lt)>> :
            n \in (MaxQuestions - 4)..(MaxQuestions - 2),
            lf \in {0, MaxTopicLikes}, lt \in {0, MaxTopicLikes}}

\* the default top_n of suggest_future_topics
DefaultSuggestions == 8

AudienceTexts ==
    {"basic", "We Scale", "migrate", "basic scale", "scale migrate", "nice"}

AudiencePool == CommentsOf(AudienceTexts, {0}, {"ann"}, {FALSE})

EntryTexts == {"[Music]", "hello world", "  ", " (um) hi  >>B<< [x"}

EntryPool == [start : 0..MaxStart, duration : 0..MaxDuration, text : EntryTexts]

StatsPool == CommentsOf({"hi"}, 0..MaxLikes, Authors, BOOLEAN)

HealthPool == CommentsOf({"ok"}, 0..MaxHealthLikes, {"ann"}, {FALSE})

\* records with a timestamp that parses, one that does not, and none
CaptionEntryTexts == {"hello world", "Now docker pods", "[Music]"}

CaptionEntryPool == [start : {0}, duration : 0..MaxDuration, text : CaptionEntryTexts]

CaptionCommentPool == CommentsOf({"nice", "Docker pods?"}, {0, MaxHealthLikes}, {"ann"}, {FALSE})

\* the threads of one page: at most MaxThreads items of the number the
\* request asked for, each with no replies or MaxReplies of them
PagesOf(limit) ==
    UNION {[1..k -> {0, MaxReplies}] : k \in 0..Min(MaxThreads, IF limit > 0 THEN limit ELSE 0)}

HttpErrors == {403, 500}

\* the language codes of the transcripts of a video
LanguageCodes == <<"en", "es", "fr", "de">>

RECURSIVE codes_from(_, _)
codes_from(k, S) ==
    IF k > Len(LanguageCodes) THEN <<>>
    ELSE (IF k \in S THEN <<LanguageCodes[k]>> ELSE <<>>) \o codes_from(k + 1, S)

\* the manual or the auto-generated transcripts that list_transcripts
\* names: each language at most once per kind.  download_captions_for_video
\* reads only 'error' and 'total_count' of the answer, so for one language
\* the lists are left out.
TranscriptLists(mode) ==
    IF mode = "all" THEN {codes_from(1, S) : S \in SUBSET (1..MaxLanguages)}
    ELSE {<<>>}

ReportPool ==
    {[text |-> "ok", like_count |-> 0, author |-> "ann", is_reply |-> FALSE],
     [text |-> "ok", like_count |-> 3, author |-> "bob", is_reply |-> TRUE,
      published_at |-> "not a date"],
     [text |-> "ok", like_count |-> 1, author |-> "bob", is_reply |-> FALSE,
      published_at |-> "2024-01-15T25:00:00Z"],
     [text |-> "ok", like_count |-> 0, author |-> "ann", is_reply |-> FALSE,
      published_at |-> "2024-01-15T10:30:00Z"],
     [text |-> "Docker tutorial please?", like_count |-> 6, author |-> "ann",
      is_reply |-> FALSE, published_at |-> "2024-01-15T10:59:59Z"],
     [text |-> "scale helm?", like_count |-> 2, author |-> "bob",
      is_reply |-> TRUE, published_at |-> "2024-02-29T23:05:00Z"]}

----------------------------------------------------------------------------
(* Operations *)

FindQuestions ==
    \E n \in 0..MaxTopN :
        /\ last' = "find_questions"
        /\ args' = [top_n |-> n]
        /\ ret' = find_questions(comments, n)
        /\ UNCHANGED <<comments, transcript, full_text, fetch_vars>>

ExtractQuestions ==
    /\ last' = "extract_questions"
    /\ args' = <<>>
    /\ ret' = extract_questions(comments)
    /\ UNCHANGED <<comments, transcript, full_text, fetch_vars>>

ExtractKeywords ==
    \E l \in MinWordLengths, n \in 0..MaxTopN :
        /\ last' = "extract_keywords"
        /\ args' = [min_word_length |-> l, top_n |-> n]
        /\ ret' = extract_keywords(comments, l, n)
        /\ UNCHANGED <<comments, transcript, full_text, fetch_vars>>

ExtractKeyTopics ==
    \E l \in MinWordLengths, n \in 0..MaxTopN :
        /\ last' = "extract_key_topics"
        /\ args' = [min_word_length |-> l, top_n |-> n]
        /\ ret' = extract_key_topics(full_text, l, n)
        /\ UNCHANGED <<comments, transcript, full_text, fetch_vars>>

GetBasicStats ==
    /\ last' = "get_basic_stats"
    /\ args' = <<>>
    /\ ret' = get_basic_stats(comments)
    /\ UNCHANGED <<comments, transcript, full_text, fetch_vars>>

BasicStatistics ==
    /\ last' = "basic_statistics"
    /\ args' = <<>>
    /\ ret' = basic_statistics(comments)
    /\ UNCHANGED <<comments, transcript, full_text, fetch_vars>>

SuggestFutureTopics ==
    \E n \in (0..MaxSuggestions) \cup {DefaultSuggestions} :
        /\ last' = "suggest_future_topics"
        /\ args' = [top_n |-> n]
        /\ ret' = suggest_future_topics(comments, n)
        /\ UNCHANGED <<comments, transcript, full_text, fetch_vars>>

AnalyzeAudienceLevel ==
    /\ last' = "analyze_audience_level"
    /\ args' = <<>>
    /\ ret' = analyze_audience_level(comments)
    /\ UNCHANGED <<comments, transcript, full_text, fetch_vars>>

ProcessTranscript ==
    /\ last' = "_process_transcript"
    /\ args' = <<>>
    /\ ret' = _process_transcript(transcript)
    /\ UNCHANGED <<comments, transcript, full_text, fetch_vars>>

AnalyzeEngagementPatterns ==
    /\ last' = "analyze_engagement_patterns"
    /\ args' = <<>>
    /\ ret' = analyze_engagement_patterns(comments)
    /\ comments' = comments_after_sorted(comments)
    /\ UNCHANGED <<transcript, full_text, fetch_vars>>

EngagementAnalysis ==
    /\ last' = "engagement_analysis"
    /\ args' = <<>>
    /\ ret' = engagement_analysis(comments)
    /\ comments' = comments_after_sorted(comments)
    /\ UNCHANGED <<transcript, full_text, fetch_vars>>

IdentifyContentRequests ==
    \E n \in 0..MaxTopN :
        /\ last' = "identify_content_requests"
        /\ args' = [top_n |-> n]
        /\ ret' = identify_content_requests(comments, n)
        /\ UNCHANGED <<comments, transcript, full_text, fetch_vars>>

GenerateInsightsSummary ==
    /\ last' = "generate_insights_summary"
    /\ args' = <<>>
    /\ ret' = generate_insights_summary(comments)
    /\ comments' = comments_after_sorted(comments)
    /\ UNCHANGED <<transcript, full_text, fetch_vars>>

GenerateSummary ==
    /\ last' = "generate_summary"
    /\ args' = <<>>
    /\ ret' = generate_summary(comments)
    /\ UNCHANGED <<comments, transcript, full_text, fetch_vars>>

FindTechnicalTerms ==
    /\ last' = "find_technical_terms"
    /\ args' = <<>>
    /\ ret' = find_technical_terms(caption_data_of(transcript))
    /\ UNCHANGED <<comments, transcript, full_text, fetch_vars>>

AnalyzeContentStructure ==
    /\ last' = "analyze_content_structure"
    /\ args' = <<>>
    /\ ret' = analyze_content_structure(caption_data_of(transcript))
    /\ UNCHANGED <<comments, transcript, full_text, fetch_vars>>

CaptionGenerateSummary ==
    /\ last' = "CaptionAnalyzer.generate_summary"
    /\ args' = <<>>
    /\ ret' = CaptionAnalyzer_generate_summary(caption_data_of(transcript))
    /\ UNCHANGED <<comments, transcript, full_text, fetch_vars>>

\* the results hold caption data (that of the transcript) or none
GenerateCombinedAnalysis ==
    \E captions \in BOOLEAN :
        /\ last' = "generate_combined_analysis"
        /\ args' = [captions |-> captions]
        /\ ret' = generate_combined_analysis(
                      IF captions THEN caption_data_of(transcript) ELSE <<>>,
                      comments)
        /\ UNCHANGED <<comments, transcript, full_text, fetch_vars>>

\* one pass of the `while True` loop of scrape_comments: the request, and
\* for a response the rate-limit delay and everything the page yields
\* (the consumer, list(), takes each record at once).  When the generator
\* ends inside get_comments_batch the export follows; an Exception goes to
\* the handler of the script.
ScrapeCommentsPage ==
    /\ pc = "scrape_comments"
    /\ scrape.requests < MaxPages
    /\ \/ \E status \in HttpErrors :
            LET raised == on_http_error(status) = "raise"
            IN  /\ log' = Append(log, Request("commentThreads.list"))
                /\ scrape' = [scrape EXCEPT !.requests = @ + 1, !.status = status]
                /\ yielded' = yielded
                /\ outcome' = IF raised THEN "raised" ELSE "returned"
                /\ run' = IF raised THEN finish(run, TRUE) ELSE run
                /\ pc' = CASE raised -> goes_to(run, TRUE)
                           [] run.script = "none" -> "done"
                           [] OTHER -> "export_comments"
       \/ \E items \in PagesOf(maxResults(scrape.max_comments, scrape.comments_retrieved)),
             token \in BOOLEAN :
            LET st == process_items(items, scrape.max_comments,
                          [out |-> yielded, next_id |-> scrape.next_id, returned |-> FALSE])
                next_page_token ==
                    IF token /\ scrape.requests + 1 < MaxPages
                    THEN scrape.requests + 1 ELSE None
                goes_on == ~st.returned /\ more_pages(next_page_token)
            IN  /\ log' = log \o <<Request("commentThreads.list"), Delay>>
                /\ yielded' = st.out
                /\ scrape' = [scrape EXCEPT
                                 !.requests = @ + 1,
                                 !.status = 200,
                                 !.comments_retrieved = Len(st.out),
                                 !.next_id = st.next_id,
                                 !.next_page_token =
                                     IF st.returned THEN @ ELSE next_page_token]
                /\ outcome' = IF goes_on THEN "running" ELSE "returned"
                /\ run' = run
                /\ pc' = CASE goes_on -> "scrape_comments"
                           [] run.script = "none" -> "done"
                           [] OTHER -> "export_comments"
    /\ UNCHANGED <<analysis_vars, download>>

\* YouTubeTranscriptApi.list_transcripts of get_available_transcripts (line
\* 99): the answer, or an exception that the method turns into {'error': ..}
\* without a delay (lines 145-152); download_captions_for_video and
\* download_all_captions return that error to their caller
ListTranscripts ==
    /\ pc = "list_transcripts"
    /\ log' = Append(log, Request("list_transcripts"))
    /\ \/ /\ download' = [download EXCEPT !.error = TRUE, !.stage = "end"]
          /\ outcome' = "returned"
          /\ run' = finish(run, TRUE)
          /\ pc' = goes_to(run, TRUE)
       \/ \E manual \in TranscriptLists(download.mode),
             auto \in TranscriptLists(download.mode),
             translatable \in BOOLEAN :
              /\ download' = [download EXCEPT !.manual_captions = manual,
                                              !.auto_generated = auto,
                                              !.is_translatable = translatable]
              /\ outcome' = "running"
              /\ run' = run
              /\ pc' = "get_available_transcripts"
    /\ UNCHANGED <<analysis_vars, scrape, yielded>>

\* the rest of get_available_transcripts (lines 108-143): the loop over the
\* transcripts, _rate_limit() and the return; then the first download
GetAvailableTranscripts ==
    /\ pc = "get_available_transcripts"
    /\ log' = Append(log, Delay)
    /\ download' = IF download.mode = "all" THEN next_caption(download) ELSE download
    /\ pc' = IF download'.stage = "end" THEN "done" ELSE "download_caption"
    /\ outcome' = IF download'.stage = "end" THEN "returned" ELSE "running"
    /\ UNCHANGED <<analysis_vars, scrape, yielded, run>>

\* one call of download_caption: by download_all_captions for the next
\* caption of its loops, with the bookkeeping of the summary, or by
\* download_captions_for_video for the one language asked for
DownloadCaption ==
    /\ pc = "download_caption"
    /\ \E answer \in {"get_transcript failed", "list_transcripts failed", "ok"} :
          LET ok == answer = "ok"
              d == IF download.mode = "all"
                   THEN next_caption(download_summary(download, ok))
                   ELSE single_download(download, ok)
          IN  /\ log' = log \o download_caption_log(answer)
              /\ download' = d
              /\ outcome' = IF d.stage = "end" THEN "returned" ELSE "running"
              /\ run' = IF d.error THEN finish(run, TRUE) ELSE run
              /\ pc' = CASE d.stage # "end" -> "download_caption"
                         [] d.error -> goes_to(run, TRUE)
                         [] run.script = "none" -> "done"
                         [] OTHER -> "export_captions"
    /\ UNCHANGED <<analysis_vars, scrape, yielded>>

\* extract_video_id of the URL on the command line (scrape_complete_content
\* lines 115-119, get_comments_batch line 698): a ValueError for a URL that
\* holds no video id
ExtractVideoId ==
    /\ pc = "extract_video_id"
    /\ \E valid \in BOOLEAN :
          LET call == valid /\ (run.api_key \/ run.script = "comment-scraper")
          IN  /\ run' = IF call THEN run ELSE finish(run, ~valid)
              /\ pc' = IF call THEN "get_video_info" ELSE goes_to(run, ~valid)
    /\ UNCHANGED <<analysis_vars, scrape, yielded, log, outcome, download>>

\* get_video_info: by scrape_complete_content (line 116) in the phase
\* video_info, by get_comments_batch (line 701) before it scrapes
GetVideoInfo ==
    /\ pc = "get_video_info"
    /\ \E answer \in {"ok", "no items", "HttpError"} :
          LET failed == answer # "ok"
              scrapes == ~failed /\ run.phase = "comments"
          IN  /\ log' = log \o get_video_info_log(answer)
              /\ run' = IF scrapes THEN run ELSE finish(run, failed)
              /\ pc' = IF scrapes THEN "scrape_comments" ELSE goes_to(run, failed)
              /\ outcome' = IF failed THEN "raised" ELSE "returned"
    /\ UNCHANGED <<analysis_vars, scrape, yielded, download>>

\* the rest of get_comments_batch (lines 706-800): comments.json, and for a
\* non-empty list insights.txt and a README.md beside it; then
\* results['comments'] of scrape_complete_content (lines 155-159)
ExportComments ==
    /\ pc = "export_comments"
    /\ LET written == {"comments.json"} \cup
                      (IF yielded # <<>> THEN {"insights.txt", "README.md"} ELSE {})
           r == [run EXCEPT !.files = @ \cup written, !.comments = TRUE]
       IN  /\ run' = finish(r, FALSE)
           /\ pc' = goes_to(r, FALSE)
    /\ UNCHANGED <<analysis_vars, scrape, yielded, log, outcome, download>>

\* the export of download_captions_for_video (lines 637-688) and the rest
\* of the caption phase of scrape_complete_content (lines 187-201): the
\* caption file, then CaptionAnalyzer.generate_summary(), which raises
\* ZeroDivisionError for a transcript of duration 0, then the analysis
\* file; with comments, generate_combined_analysis, which writes
\* combined_analysis.txt or catches its own exception
ExportCaptions ==
    /\ pc = "export_captions"
    /\ \E analysis \in {"ok", "ZeroDivisionError"}, combined \in BOOLEAN :
          LET ok == analysis = "ok"
              written == {"captions.json"} \cup
                         (IF ok THEN {"analysis.txt"} ELSE {}) \cup
                         (IF ok /\ run.comments /\ combined
                          THEN {"combined_analysis.txt"} ELSE {})
              r == [run EXCEPT !.files = @ \cup written, !.captions = ok]
          IN  /\ combined => (ok /\ run.comments)
              /\ run' = finish(r, ~ok)
              /\ pc' = goes_to(r, ~ok)
    /\ UNCHANGED <<analysis_vars, scrape, yielded, log, outcome, download>>

\* create_summary_report (lines 346-406) and the return to main, which
\* prints the results and ends
CreateSummaryReport ==
    /\ pc = "create_summary_report"
    /\ run' = [run EXCEPT !.files = @ \cup {"README.md"}, !.report = TRUE]
    /\ pc' = "exit"
    /\ UNCHANGED <<analysis_vars, scrape, yielded, log, outcome, download>>

\* Ctrl-C while a fetching call runs.  No handler below main catches
\* KeyboardInterrupt (they are `except Exception`), and main exits with 1
\* (youtube-content-scraper.py lines 495-497, youtube-comment-scraper.py
\* lines 266-268), except for the bare `except: pass` around the read of
\* translation_languages in the loop of get_available_transcripts
\* (youtube_caption_downloader.py lines 124-130): an interrupt raised there
\* is dropped and the method goes on.
KeyboardInterrupt ==
    /\ run.script # "none"
    /\ pc \in FetchCalls
    /\ ~run.interrupted
    /\ \/ /\ run' = [run EXCEPT !.interrupted = TRUE, !.exit_status = 1]
          /\ pc' = "exit"
          /\ log' = log
       \/ /\ pc = "get_available_transcripts"
          /\ download.is_translatable
          /\ run' = [run EXCEPT !.interrupted = TRUE]
          /\ pc' = "download_caption"
          /\ log' = Append(log, Delay)
    /\ UNCHANGED <<analysis_vars, scrape, yielded, outcome, download>>

InitWith(cs, tr, ft) ==
    /\ comments = cs
    /\ transcript = tr
    /\ full_text = ft
    /\ last = "init"
    /\ args = <<>>
    /\ ret = <<>>
    /\ FetchIdle

InitQuestions == \E cs \in ListsOf(QuestionPool, MaxComments) : InitWith(cs, <<>>, "")

NextQuestions == FindQuestions \/ ExtractQuestions

SpecQuestions == InitQuestions /\ [][NextQuestions]_vars

\* a CommentAnalyzer over comments or a CaptionAnalyzer over a caption text
InitLongQuestions ==
    \E cs \in ListsOf(LongQuestionPool, MaxLongComments) : InitWith(cs, <<>>, "")

SpecLongQuestions == InitLongQuestions /\ [][NextQuestions]_vars

InitKeywords ==
    \/ \E cs \in ListsOf(KeywordPool, MaxComments) : InitWith(cs, <<>>, "")
    \/ \E ft \in CaptionTexts : InitWith(<<>>, <<>>, ft)

NextKeywords == ExtractKeywords \/ ExtractKeyTopics

SpecKeywords == InitKeywords /\ [][NextKeywords]_vars

InitStats == \E cs \in ListsOf(StatsPool, MaxComments) : InitWith(cs, <<>>, "")

NextStats == GetBasicStats \/ BasicStatistics

SpecStats == InitStats /\ [][NextStats]_vars

InitTopics ==
    \E cs \in ListsOf(TopicPool, MaxTopicComments) \cup ManyQuestions :
        InitWith(cs, <<>>, "")

NextTopics == SuggestFutureTopics

SpecTopics == InitTopics /\ [][NextTopics]_vars

InitAudience == \E cs \in ListsOf(AudiencePool, MaxComments) : InitWith(cs, <<>>, "")

NextAudience == AnalyzeAudienceLevel

SpecAudience == InitAudience /\ [][NextAudience]_vars

InitTranscript == \E tr \in ListsOf(EntryPool, MaxEntries) : InitWith(<<>>, tr, "")

NextTranscript == ProcessTranscript

SpecTranscript == InitTranscript /\ [][NextTranscript]_vars

InitHealth == \E cs \in ListsOf(HealthPool, MaxHealthComments) : InitWith(cs, <<>>, "")

NextHealth == GenerateInsightsSummary \/ GenerateSummary

SpecHealth == InitHealth /\ [][NextHealth]_vars

InitReport == \E cs \in ListsOf(ReportPool, MaxReportComments) : InitWith(cs, <<>>, "")

\* every analysis of a CommentAnalyzer, the report, and the transcript
\* processing of an empty transcript
NextReport ==
    \/ GetBasicStats
    \/ ExtractKeywords
    \/ FindQuestions
    \/ AnalyzeEngagementPatterns
    \/ EngagementAnalysis
    \/ IdentifyContentRequests
    \/ SuggestFutureTopics
    \/ AnalyzeAudienceLevel
    \/ GenerateInsightsSummary
    \/ ProcessTranscript

SpecReport == InitReport /\ [][NextReport]_vars

InitCaptions ==
    \E tr \in ListsOf(CaptionEntryPool, MaxCaptionEntries),
       cs \in ListsOf(CaptionCommentPool, MaxCaptionComments) :
        InitWith(cs, tr, "")

NextCaptions ==
    \/ ProcessTranscript
    \/ FindTechnicalTerms
    \/ AnalyzeContentStructure
    \/ CaptionGenerateSummary
    \/ GenerateCombinedAnalysis

SpecCaptions == InitCaptions /\ [][NextCaptions]_vars

\* a call of scrape_comments(video_id, max_comments) whose generator is
\* consumed to its end
InitScrape ==
    \E max_comments \in 0..MaxScraped :
        /\ comments = <<>>
        /\ transcript = <<>>
        /\ full_text = ""
        /\ last = "init"
        /\ args = <<>>
        /\ ret = <<>>
        /\ pc = "scrape_comments"
        /\ scrape = scrape_start(max_comments)
        /\ yielded = <<>>
        /\ log = <<>>
        /\ outcome = "running"
        /\ download = download_start("all", "en", TRUE)
        /\ run = run_start("none", FALSE)

NextScrape == ScrapeCommentsPage

\* a call of download_all_captions(video_id, include_auto_generated)
InitDownload ==
    \E include_auto_generated \in BOOLEAN :
        /\ comments = <<>>
        /\ transcript = <<>>
        /\ full_text = ""
        /\ last = "init"
        /\ args = <<>>
        /\ ret = <<>>
        /\ pc = "list_transcripts"
        /\ scrape = scrape_start(None)
        /\ yielded = <<>>
        /\ log = <<>>
        /\ outcome = "running"
        /\ download = download_start("all", "en", include_auto_generated)
        /\ run = run_start("none", FALSE)

NextDownload ==
    \/ ListTranscripts
    \/ GetAvailableTranscripts
    \/ DownloadCaption

SpecDownload == InitDownload /\ [][NextDownload]_vars

\* a run of youtube-content-scraper.py, with or without an API key, or of
\* youtube-comment-scraper.py, for the default caption language
InitRun ==
    \E script \in {"content-scraper", "comment-scraper"}, api_key \in BOOLEAN,
       max_comments \in {None, RunMaxComments} :
        /\ script = "comment-scraper" => api_key
        /\ comments = <<>>
        /\ transcript = <<>>
        /\ full_text = ""
        /\ last = "init"
        /\ args = <<>>
        /\ ret = <<>>
        /\ pc = "extract_video_id"
        /\ scrape = scrape_start(max_comments)
        /\ yielded = <<>>
        /\ log = <<>>
        /\ outcome = "running"
        /\ download = download_start("single", "en", TRUE)
        /\ run = enter(run_start(script, api_key),
                       IF script = "content-scraper" THEN "video_info" ELSE "comments")

NextRun ==
    \/ ExtractVideoId
    \/ GetVideoInfo
    \/ ScrapeCommentsPage
    \/ ExportComments
    \/ ListTranscripts
    \/ GetAvailableTranscripts
    \/ DownloadCaption
    \/ ExportCaptions
    \/ CreateSummaryReport
    \/ KeyboardInterrupt

SpecRun == InitRun /\ [][NextRun]_vars

SpecScrape == InitScrape /\ [][NextScrape]_vars

\* the generator is run until it ends
SpecScrapeLive == SpecScrape /\ WF_vars(NextScrape)

Init ==
    \/ InitScrape
    \/ InitDownload
    \/ InitRun
    \/ InitQuestions
    \/ InitLongQuestions
    \/ InitKeywords
    \/ InitStats
    \/ InitTopics
    \/ InitAudience
    \/ InitTranscript
    \/ InitHealth
    \/ InitReport
    \/ InitCaptions

Next ==
    \/ NextRun
    \/ NextQuestions
    \/ NextKeywords
    \/ NextStats
    \/ NextTopics
    \/ NextAudience
    \/ NextTranscript
    \/ NextHealth
    \/ NextReport
    \/ NextCaptions

Spec == Init /\ [][Next]_vars

----------------------------------------------------------------------------
(* Properties *)

\* the indicator words of the question contract
IndicatorWords == <<"how", "what", "why", "when", "where", "which", "can you">>

MarkAndWord(text) == Contains("?", text) /\ AnyIn(IndicatorWords, lower(text))

\* C1: a comment is returned as a question if and only if its text has a
\* '?' and, case-insensitively, one of the indicator words; a comment with a
\* '?' and no indicator word is not returned.
C1_QuestionIffMarkAndWord ==
    /\ last = "find_questions" =>
          /\ \A k \in 1..Len(ret) : MarkAndWord(ret[k].text)
          /\ args.top_n >= Len(comments) =>
                Len(ret) = Cardinality({i \in 1..Len(comments) :
                                          MarkAndWord(comments[i].text)})
    /\ last = "extract_questions" =>
          /\ \A k \in 1..Len(ret) : MarkAndWord(ret[k].question)
          /\ Len(ret) = Cardinality({i \in 1..Len(comments) :
                                       MarkAndWord(comments[i].text)})

\* the texts of the matching comments with like count v, in input order
MatchesWithLikes(indicators, v) ==
    LET idx == SelectSeq(QuestionIndices(comments, indicators),
                         LAMBDA i : comments[i].like_count = v)
    IN  [k \in 1..Len(idx) |-> strip(comments[idx[k]].text)]

IsPrefix(a, b) == Len(a) <= Len(b) /\ SubSeq(b, 1, Len(a)) = a

NonIncreasing(xs) == \A k \in 1..(Len(xs) - 1) : xs[k] >= xs[k + 1]

\* C10: the questions come back by like count descending, records with equal
\* like counts in input order; find_questions(top_n) returns the first top_n
\* records of that order.
C10_QuestionsSortedStable ==
    /\ last = "extract_questions" =>
          /\ NonIncreasing([k \in 1..Len(ret) |-> ret[k].likes])
          /\ \A v \in 0..MaxLikes :
                LET got == SelectSeq(ret, LAMBDA q : q.likes = v)
                IN  [k \in 1..Len(got) |-> got[k].question]
                        = MatchesWithLikes(script_question_indicators, v)
    /\ last = "find_questions" =>
          /\ NonIncreasing([k \in 1..Len(ret) |-> ret[k].likes])
          /\ Len(ret) = Min(args.top_n,
                            Len(QuestionIndices(comments, question_indicators)))
          /\ \A v \in 0..MaxLikes :
                LET got == SelectSeq(ret, LAMBDA q : q.likes = v)
                    all == MatchesWithLikes(question_indicators, v)
                IN  /\ IsPrefix([k \in 1..Len(got) |-> got[k].text], all)
                    /\ Len(got) < Len(all) =>
                          \A k \in 1..Len(ret) : ret[k].likes >= v

\* three questions, two of them tied for the lead, cut to the first two
C10_Witness ==
    /\ last = "find_questions"
    /\ Len(QuestionIndices(comments, question_indicators)) = 3
    /\ Len(ret) = 2
    /\ ret[1].likes = ret[2].likes
    /\ ret[1].text # ret[2].text

----------------------------------------------------------------------------
(* Keywords *)

\* the tokens the keyword contract counts: runs of word characters of the
\* case-folded text, at least n long, outside the stopword set
CountedTokens(text, n, stops) ==
    {w \in {WordRuns(lower(text))[k] : k \in 1..Len(WordRuns(lower(text)))} :
        Len(w) >= n /\ w \notin stops}

KeywordResultIsExact(text, stops) ==
    /\ \A k \in 1..Len(ret) : ret[k][1] \notin stops
    /\ Len(ret) < args.top_n =>
          \A w \in CountedTokens(text, args.min_word_length, stops) :
              \E k \in 1..Len(ret) :
                  ret[k] = <<w, Occurrences(w, WordRuns(lower(text)))>>

\* C3: the keyword extractor counts exactly the case-folded tokens of length
\* >= L outside the stopword set: a token of exactly L characters is counted
\* with its true number of occurrences and no stopword is in the result.
C3_KeywordsCountTokensOfMinLength ==
    /\ last = "extract_keywords" =>
          KeywordResultIsExact(join([i \in 1..Len(comments) |-> comments[i].text]),
                               stop_words)
    /\ last = "extract_key_topics" =>
          KeywordResultIsExact(full_text, caption_stop_words)

\* C9: the keyword extractor returns at most top_n pairs, counts
\* non-increasing.
C9_KeywordsBoundedAndSorted ==
    last \in {"extract_keywords", "extract_key_topics"} =>
        /\ Len(ret) <= args.top_n
        /\ NonIncreasing([k \in 1..Len(ret) |-> ret[k][2]])

\* more distinct keywords than requested, the kept ones with different counts
C9_Witness ==
    /\ last = "extract_keywords"
    /\ args.top_n = 2
    /\ Len(ret) = 2
    /\ ret[1][2] > ret[2][2]
    /\ Len(extract_keywords(comments, args.min_word_length, 3)) = 3

----------------------------------------------------------------------------
(* Engagement *)

IsZero(f) == f.num = 0

AllLikesZero == \A i \in 1..Len(comments) : comments[i].like_count = 0

\* C4 as stated: the mean like count is 0 if and only if the collection is
\* empty, and the scorer does not raise on the empty collection.
C4_MeanZeroIffEmpty ==
    /\ last = "basic_statistics" =>
          ~Raised(ret) /\ (IsZero(ret.avg_likes) <=> comments = <<>>)
    /\ last = "get_basic_stats" =>
          ~Raised(ret) /\ (comments # <<>> => ~IsZero(ret.avg_likes))

\* C4 amended: the scorer does not raise on the empty collection
\* (get_basic_stats returns the empty result, basic_statistics a mean of 0)
\* and the mean like count is 0 if and only if every like count is 0.
C4_MeanZeroIffNoLikes ==
    /\ last = "basic_statistics" =>
          ~Raised(ret) /\ (IsZero(ret.avg_likes) <=> AllLikesZero)
    /\ last = "get_basic_stats" =>
          IF comments = <<>> THEN ret = <<>>
          ELSE ~Raised(ret) /\ (IsZero(ret.avg_likes) <=> AllLikesZero)

\* a non-empty collection whose mean is 0
C4_Witness ==
    /\ last = "get_basic_stats"
    /\ comments # <<>>
    /\ IsZero(ret.avg_likes)

----------------------------------------------------------------------------
(* Topic suggestions *)

\* the records whose lower-cased text mentions the keyword
Mentioning(topic) ==
    {i \in 1..Len(comments) : Contains(topic, lower(comments[i].text))}

LikesOf(is) ==
    SumSeq([i \in 1..Len(comments) |-> IF i \in is THEN comments[i].like_count ELSE 0])

\* C5: for every taxonomy keyword with an occurrence the interest score is
\* mentions x (1 + mean like count of the records mentioning it), mentions
\* counted as whole words of the lower-cased concatenated text; a suggestion
\* of that topic is 'High' if the score is > 10, else 'Medium'.
C5_InterestScoreAndPriority ==
    last = "suggest_future_topics" =>
        LET words == WordRuns(all_text(comments))
            scored == mentioned_topics(comments)
            \* <<mentions, records mentioning, their likes>> of a keyword
            facts == [k \in 1..Len(container_topics) |->
                        LET who == Mentioning(container_topics[k].topic)
                        IN  [topic    |-> container_topics[k].topic,
                             mentions |-> Occurrences(container_topics[k].topic, words),
                             records  |-> Cardinality(who),
                             likes    |-> LikesOf(who)]]
        IN  /\ \A k \in 1..Len(facts) :
                  LET found == SelectSeq(scored, LAMBDA t : t.topic = facts[k].topic)
                  IN  IF facts[k].mentions = 0 THEN found = <<>>
                      ELSE /\ Len(found) = 1
                           /\ facts[k].records > 0
                           /\ found[1].mentions = facts[k].mentions
                           /\ found[1].interest_score.num * facts[k].records
                                = facts[k].mentions
                                    * (facts[k].records + facts[k].likes)
                                    * found[1].interest_score.den
            /\ \A j \in 1..Len(ret) :
                  ret[j].priority # "Emerging" =>
                      \E k \in 1..Len(facts) :
                          /\ facts[k].topic = ret[j].based_on_topic
                          /\ facts[k].records > 0
                          /\ ret[j].mentions = facts[k].mentions
                          /\ ret[j].avg_engagement
                                = Frac(facts[k].likes, facts[k].records)
                          /\ ret[j].priority =
                                IF facts[k].mentions * (facts[k].records + facts[k].likes)
                                       > HighInterest * facts[k].records
                                THEN "High" ELSE "Medium"

\* 5 mentions with a mean like count of 4: score 25, 'High'
C5_Witness ==
    /\ last = "suggest_future_topics"
    /\ \E k \in 1..Len(ret) :
          /\ ret[k].based_on_topic = "docker"
          /\ ret[k].mentions = 5
          /\ ret[k].avg_engagement = Frac(4, 1)
          /\ ret[k].priority = "High"

\* High before Emerging before Medium
PriorityRank(s) ==
    IF s.priority = "High" THEN 3 ELSE IF s.priority = "Emerging" THEN 2 ELSE 1

\* the engagement value of a suggestion: a mean like count, or the like count
\* of the question an emerging suggestion comes from
EngagementOf(s) ==
    IF s.priority = "Emerging" THEN Frac(s.avg_engagement, 1) ELSE s.avg_engagement

\* suggestion a is not ordered after suggestion b
NotAfter(a, b) ==
    \/ PriorityRank(a) > PriorityRank(b)
    \/ PriorityRank(a) = PriorityRank(b) /\ ~FracGreater(EngagementOf(b), EngagementOf(a))

\* C11: the list returned by suggest_future_topics(top_n) has all 'High'
\* suggestions first, then all 'Emerging', then all 'Medium', each group by
\* engagement value descending, and is cut to at most top_n entries: the
\* entries left out are ordered no earlier than the last one returned.
C11_SuggestionsOrderedAndCut ==
    last = "suggest_future_topics" =>
        LET suggested == video_suggestions(comments, args.top_n)
            all == suggested \o emerging_topics(comments, suggested)
        IN  /\ Len(ret) = Min(args.top_n, Len(all))
            /\ \A k \in 1..(Len(ret) - 1) : NotAfter(ret[k], ret[k + 1])
            /\ \A k \in 1..Len(ret) : \E j \in 1..Len(all) : all[j] = ret[k]
            /\ \A j \in 1..Len(all) :
                  \/ \E k \in 1..Len(ret) : ret[k] = all[j]
                  \/ Len(ret) > 0 /\ NotAfter(ret[Len(ret)], all[j])
                  \/ args.top_n = 0

\* a 'High', an 'Emerging' and a 'Medium' suggestion, in that order
C11_Witness ==
    /\ last = "suggest_future_topics"
    /\ \E i, j, k \in 1..Len(ret) :
          /\ i < j /\ j < k
          /\ ret[i].priority = "High"
          /\ ret[j].priority = "Emerging"
          /\ ret[k].priority = "Medium"

\* the questions of the collection, by like count descending
RankedQuestions == find_questions(comments, Len(comments))

\* the <<question, technology>> pairs among the first QuestionsScanned of
\* the ranked questions: the question's text names the technology
ScannedPairs(ranked) ==
    {<<k, j>> \in (1..Min(QuestionsScanned, Len(ranked))) \X (1..Len(tech_patterns)) :
        Contains(tech_patterns[j].tech, lower(ranked[k].text))}

\* C12: only the first 20 questions are scanned against the emerging
\* taxonomy; every suggestion of priority 'Emerging' comes from one of them,
\* carries that question's like count as its engagement value and has a
\* title that no 'High' or 'Medium' suggestion has; when nothing is cut off
\* there is one emerging suggestion for each match.
C12_EmergingFromLeadingQuestions ==
    last = "suggest_future_topics" =>
        LET emerging == SelectSeq(ret, LAMBDA s : s.priority = "Emerging")
            others == SelectSeq(ret, LAMBDA s : s.priority # "Emerging")
            ranked == RankedQuestions
            pairs == ScannedPairs(ranked)
        IN  /\ \A e \in 1..Len(emerging) :
                  /\ \E pr \in pairs :
                        /\ emerging[e].title = tech_patterns[pr[2]].title
                        /\ emerging[e].based_on_topic = tech_patterns[pr[2]].tech
                        /\ emerging[e].avg_engagement = ranked[pr[1]].likes
                  /\ emerging[e].mentions = 1
                  /\ \A o \in 1..Len(others) : others[o].title # emerging[e].title
            /\ Len(ret) < args.top_n => Len(emerging) = Cardinality(pairs)

\* more than 20 questions: the leading one yields an emerging suggestion with
\* its like count, the one ranked after the 20th yields none
C12_Witness ==
    /\ last = "suggest_future_topics"
    /\ Len(comments) > QuestionsScanned
    /\ LET ranked == RankedQuestions
       IN  Len(ranked) = Len(comments) /\ Contains("wasm", ranked[Len(ranked)].text)
    /\ \E k \in 1..Len(ret) :
          /\ ret[k].title = "Advanced Helm Chart Development"
          /\ ret[k].avg_engagement = MaxTopicLikes
    /\ \A k \in 1..Len(ret) : ret[k].title # "WebAssembly and Container Runtime"

----------------------------------------------------------------------------
(* Audience level *)

Matching(indicators) ==
    {i \in 1..Len(comments) : AnyIn(indicators, lower(comments[i].text))}

\* the comments that belong to each tier when beginner is tested first, then
\* advanced, then intermediate
TierMembers ==
    [beginner     |-> Matching(beginner_indicators),
     advanced     |-> Matching(advanced_indicators) \ Matching(beginner_indicators),
     intermediate |-> Matching(intermediate_indicators)
                        \ (Matching(beginner_indicators) \cup Matching(advanced_indicators))]

MatchingAny ==
    Matching(beginner_indicators) \cup Matching(advanced_indicators)
        \cup Matching(intermediate_indicators)

\* the number of comments a result counts in tier l
TierCount(l) ==
    IF "total_classified" \in DOMAIN ret
    THEN (ret.distribution[l].num * ret.total_classified)
             \div (100 * ret.distribution[l].den)
    ELSE ret.distribution[l]

\* C6: every record is counted in at most one tier, beginner before advanced
\* before intermediate; records matching no indicator are in no tier, so the
\* three tier counts add up to the number of records matching an indicator.
C6_TiersByPrecedence ==
    (last = "analyze_audience_level" /\ comments # <<>>) =>
        /\ \A l \in {"beginner", "intermediate", "advanced"} :
              TierCount(l) = Cardinality(TierMembers[l])
        /\ TierCount("beginner") + TierCount("intermediate") + TierCount("advanced")
              = Cardinality(MatchingAny)
        /\ "total_classified" \in DOMAIN ret =>
              ret.total_classified = Cardinality(MatchingAny)

\* a record with a beginner and an advanced word is counted as beginner only,
\* next to a record that matches nothing
C6_Witness ==
    /\ last = "analyze_audience_level"
    /\ \E i \in 1..Len(comments) :
          i \in Matching(beginner_indicators) \cap Matching(advanced_indicators)
    /\ \E i \in 1..Len(comments) : i \notin MatchingAny
    /\ TierCount("beginner") = 1
    /\ TierCount("advanced") = 0

\* C7: when some record is classified the three percentages add up to 100,
\* each is tier count / classified count x 100, and the dominant level has
\* the largest percentage.
C7_PercentagesSumTo100 ==
    (last = "analyze_audience_level" /\ "total_classified" \in DOMAIN ret) =>
        LET dist == ret.distribution
        IN  /\ ret.total_classified > 0
            /\ \A l \in DOMAIN dist :
                  dist[l].num * ret.total_classified
                      = 100 * Cardinality(TierMembers[l]) * dist[l].den
            /\ dist["beginner"].den = dist["intermediate"].den
            /\ dist["beginner"].den = dist["advanced"].den
            /\ dist["beginner"].num + dist["intermediate"].num + dist["advanced"].num
                  = 100 * dist["beginner"].den
            /\ \A l \in DOMAIN dist : ~FracGreater(dist[l], dist[ret.dominant_level])

\* two thirds beginner, one third advanced
C7_Witness ==
    /\ last = "analyze_audience_level"
    /\ "total_classified" \in DOMAIN ret
    /\ ret.total_classified = 3
    /\ ret.distribution["beginner"] = Frac(200, 3)
    /\ ret.distribution["advanced"] = Frac(100, 3)
    /\ ret.dominant_level = "beginner"

----------------------------------------------------------------------------
(* Caption segments *)

\* C2: a segment is emitted only for the entries whose cleaned text is not
\* empty: no segment has an empty text and there are as many segments as
\* entries with a non-empty cleaned text.
C2_SegmentsHaveCleanedText ==
    last = "_process_transcript" =>
        /\ \A k \in 1..Len(ret.segments) : ret.segments[k].text # ""
        /\ Len(ret.segments)
              = Cardinality({i \in 1..Len(transcript) :
                    _clean_caption_text(transcript[i].text) # ""})

\* the positions where a word of s starts
WordStarts(s) ==
    {i \in 1..Len(s) :
        /\ CharAt(s, i) \notin Whitespace
        /\ i = 1 \/ CharAt(s, i - 1) \in Whitespace}

----------------------------------------------------------------------------
(* Engagement health *)

\* the class of the mean like count, from the total and the number of records
ExpectedHealth ==
    IF total_likes(comments) > 5 * Len(comments) THEN "Excellent"
    ELSE IF total_likes(comments) > 2 * Len(comments) THEN "Good"
    ELSE "Needs Improvement"

\* C14: for a collection with records, both reports class the engagement
\* health by the mean like count: 'Excellent' above 5, 'Good' above 2 and up
\* to 5, 'Needs Improvement' otherwise; the two reports agree; when all like
\* counts are 0 the health is 'Needs Improvement' and no record counts as
\* high engagement.
C14_HealthByMean ==
    comments # <<>> =>
        /\ last = "generate_insights_summary" =>
              /\ ret[Len(ret)].section = "engagement health"
              /\ ret[Len(ret)].status = ExpectedHealth
              /\ ret[Len(ret)].status = generate_summary(comments).health
              /\ AllLikesZero =>
                    /\ ret[Len(ret)].status = "Needs Improvement"
                    /\ ret[1].high_engagement_count = 0
        /\ last = "generate_summary" =>
              /\ ret.health = ExpectedHealth
              /\ AllLikesZero =>
                    /\ ret.health = "Needs Improvement"
                    /\ ret.high_engagement = 0

\* two records with a mean of exactly 5: 'Good'
C14_Witness ==
    /\ last = "generate_insights_summary"
    /\ Len(comments) = 2
    /\ total_likes(comments) = 10
    /\ ret[Len(ret)].status = "Good"

----------------------------------------------------------------------------
(* Insights report *)

SectionOrder ==
    <<"basic stats", "top topics", "top questions", "content requests",
      "top commenters", "peak hours", "suggested future topics",
      "audience level", "engagement health">>

SectionIndex(name) == CHOOSE i \in 1..Len(SectionOrder) : SectionOrder[i] = name

\* the timestamps of the inputs that are ISO-8601 timestamps
WellFormedTimestamps ==
    {"2024-01-15T10:30:00Z", "2024-01-15T10:59:59Z", "2024-02-29T23:05:00Z"}

\* the records with a timestamp that is an ISO-8601 timestamp
Dated ==
    {i \in 1..Len(comments) :
        /\ "published_at" \in DOMAIN comments[i]
        /\ comments[i].published_at \in WellFormedTimestamps}

\* C15: for a collection with records the report has its sections in the
\* order basic stats, top topics, top questions, content requests, top
\* commenters, peak hours, suggested future topics, audience level,
\* engagement health; a section is there exactly when its component has a
\* result to show, and the first and the last are always there.
C15_SectionsInFixedOrder ==
    (last = "generate_insights_summary" /\ comments # <<>>) =>
        LET names == [k \in 1..Len(ret) |-> ret[k].section]
            Has(name) == \E k \in 1..Len(names) : names[k] = name
        IN  /\ \A k \in 1..Len(names) : \E i \in 1..Len(SectionOrder) : SectionOrder[i] = names[k]
            /\ \A k \in 1..(Len(names) - 1) :
                  SectionIndex(names[k]) < SectionIndex(names[k + 1])
            /\ Has("basic stats") /\ Has("top commenters") /\ Has("engagement health")
            /\ Has("top topics") <=> extract_keywords(comments, 4, 15) # <<>>
            /\ Has("top questions") <=> find_questions(comments, 5) # <<>>
            /\ Has("content requests") <=> identify_content_requests(comments, 5) # <<>>
            /\ Has("peak hours") <=> Dated # {}
            /\ Has("suggested future topics") <=> suggest_future_topics(comments, 8) # <<>>
            /\ Has("audience level") <=> MatchingAny # {}

\* a report without topics, questions, requests, suggestions and audience
\* level: the four other sections, in order
C15_Witness ==
    /\ last = "generate_insights_summary"
    /\ Len(ret) = 4
    /\ ret[1].section = "basic stats"
    /\ ret[2].section = "top commenters"
    /\ ret[3].section = "peak hours"
    /\ ret[4].section = "engagement health"

Redated ==
    [i \in 1..Len(comments) |->
       [text         |-> comments[i].text,
        like_count   |-> comments[i].like_count,
        author       |-> comments[i].author,
        is_reply     |-> comments[i].is_reply,
        published_at |-> "2024-01-15T10:30:00Z"]]

\* the hour an ISO-8601 timestamp YYYY-MM-DDTHH:MM:SSZ names
HourNamed(stamp) == ToInt(SubSeq(stamp, 12, 13))

----------------------------------------------------------------------------
(* Caption analysis *)

\* the captions of the video: every segment starts at 0 and lasts 0 seconds
ZeroLengthCaptions ==
    /\ caption_data_of(transcript).segments # <<>>
    /\ caption_data_of(transcript).statistics.total_duration = 0

\* C19: for caption data with at least one segment and a total duration of
\* 0, analyze_content_structure raises nothing and gives a content density
\* of 0, and generate_summary returns a report.
C19_ZeroDurationDensityIsZero ==
    ZeroLengthCaptions =>
        /\ last = "analyze_content_structure" =>
              /\ ~Raised(ret)
              /\ IsZero(ret.content_density)
        /\ last = "CaptionAnalyzer.generate_summary" => ~Raised(ret)

\* C18: whenever there is caption data the combined analysis writes its
\* report with an alignment score, and the score is 0 when no caption topic
\* is mentioned in a comment or there is no caption topic.
C18_AlignmentScoreAlwaysDefined ==
    (last = "generate_combined_analysis" /\ args.captions) =>
        LET topics == extract_key_topics(caption_data_of(transcript).processed_text, 4, 15)
            text == lower(join([i \in 1..Len(comments) |-> comments[i].text]))
            mentioned == {k \in 1..Len(topics) : Contains(topics[k][1], text)}
        IN  /\ ret.outcome = "saved"
            /\ ret.alignment_score.num * Len(topics) =
                  Cardinality(mentioned) * 100 * ret.alignment_score.den
            /\ (mentioned = {} \/ topics = <<>>) => IsZero(ret.alignment_score)

----------------------------------------------------------------------------
(* Question records *)

\* the record v was built from comment c and carries its whole text
CarriesTextOf(v, text, c) ==
    /\ text = strip(c.text)
    /\ v.author = c.author
    /\ v.likes = c.like_count

\* C21: every question record returned by find_questions and by
\* extract_questions carries the full text of its comment, whatever its
\* length.
C21_QuestionRecordsKeepFullText ==
    /\ last = "find_questions" =>
          \A k \in 1..Len(ret) :
              \E i \in 1..Len(comments) : CarriesTextOf(ret[k], ret[k].text, comments[i])
    /\ last = "extract_questions" =>
          \A k \in 1..Len(ret) :
              \E i \in 1..Len(comments) : CarriesTextOf(ret[k], ret[k].question, comments[i])

----------------------------------------------------------------------------
(* High engagement *)

\* C27: for a collection with records, fewer than half of the records are
\* high engagement (liked more than twice the mean):
\* 2 * high_engagement_count < total_comments; and top-level comments and
\* replies add up to total_comments.
C27_HighEngagementIsMinority ==
    (last = "get_basic_stats" /\ comments # <<>>) =>
        /\ ret.high_engagement_count =
              Cardinality({i \in 1..Len(comments) :
                  comments[i].like_count * Len(comments) > 2 * total_likes(comments)})
        /\ 2 * ret.high_engagement_count < ret.total_comments
        /\ ret.top_level_comments + ret.replies = ret.total_comments
        /\ ret.total_comments = Len(comments)

\* a collection with a high-engagement record, a reply and a top-level
\* comment
C27_Witness ==
    /\ last = "get_basic_stats"
    /\ comments # <<>>
    /\ ret.high_engagement_count >= 1
    /\ ret.replies >= 1
    /\ ret.top_level_comments >= 1

----------------------------------------------------------------------------
(* Suggestion titles *)

\* C28: the list returned by suggest_future_topics never holds two
\* suggestions with the same title.
C28_SuggestionTitlesDistinct ==
    last = "suggest_future_topics" =>
        \A i, j \in 1..Len(ret) : i # j => ret[i].title # ret[j].title

----------------------------------------------------------------------------
(* Comment scraping *)

\* C24: with a positive max_comments, scrape_comments yields at most
\* max_comments records, replies included, and once it has yielded that
\* many it is not at the head of its loop again, where the next step is a
\* page request.
C24_AtMostMaxCommentsAndNoFurtherRequest ==
    scrape.max_comments # None =>
        /\ Len(yielded) <= scrape.max_comments
        /\ (pc = "scrape_comments" /\ scrape.requests < MaxPages) =>
              Len(yielded) < scrape.max_comments

\* C25: a yielded record is a reply exactly when it has a parent id, and
\* the parent of every reply is a top-level comment yielded before it.
C25_RepliesFollowTheirParent ==
    \A k \in 1..Len(yielded) :
        /\ yielded[k].is_reply <=> yielded[k].parent_comment_id # None
        /\ yielded[k].is_reply =>
              \E j \in 1..(k - 1) :
                  /\ ~yielded[j].is_reply
                  /\ yielded[j].comment_id = yielded[k].parent_comment_id

\* a reply of the second thread
C25_Witness ==
    \E k \in 1..Len(yielded) :
        /\ yielded[k].is_reply
        /\ yielded[k].parent_comment_id # yielded[1].comment_id

\* C26: the pagination loop ends when the API eventually returns a page
\* without a token; a 403 ends the scrape without raising, any other HTTP
\* error raises, and no step takes back a record already yielded.
C26_ScrapeEnds ==
    /\ <>(pc = "done")
    /\ [](scrape.status = 403 => (pc = "done" /\ outcome = "returned"))
    /\ [](scrape.status = 500 => (pc = "done" /\ outcome = "raised"))
    /\ [][IsPrefix(yielded, yielded')]_vars

\* a 403 on a later page: the records of the pages before are kept
C26_Witness ==
    /\ scrape.status = 403
    /\ outcome = "returned"
    /\ scrape.requests > 1
    /\ yielded # <<>>

----------------------------------------------------------------------------
(* Caption download *)

\* C22: the external requests are issued one after the other with the
\* rate-limit delay between any two consecutive requests, also after a
\* request that failed: in the log no request follows a request directly.
C22_DelayBetweenConsecutiveRequests ==
    \A k \in 1..(Len(log) - 1) :
        log[k].event = "request" => log[k + 1].event = "delay"

\* the attempts of one kind, as language codes
attempted(auto_generated) ==
    {download.attempts[k].language_code :
        k \in {j \in 1..Len(download.attempts) :
                  download.attempts[j].auto_generated = auto_generated}}

\* C29: download_all_captions attempts every manual caption before any
\* auto-generated one and attempts no auto-generated caption of a language
\* whose manual caption was stored; successful is the number of entries of
\* captions, failed the number of errors, and together they are the number
\* of attempts.
C29_ManualFirstAndSummaryCounts ==
    /\ \A j \in 1..Len(download.attempts) :
          download.attempts[j].auto_generated =>
              /\ \A k \in (j + 1)..Len(download.attempts) :
                     download.attempts[k].auto_generated
              /\ attempted(FALSE) = {download.manual_captions[k] :
                                        k \in 1..Len(download.manual_captions)}
              /\ \A k \in 1..(j - 1) :
                     ~(/\ ~download.attempts[k].auto_generated
                       /\ download.attempts[k].stored
                       /\ download.attempts[k].language_code =
                              download.attempts[j].language_code)
    /\ (pc = "done" /\ ~download.error) =>
          attempted(FALSE) = {download.manual_captions[k] :
                                 k \in 1..Len(download.manual_captions)}
    /\ download.successful = Cardinality(download.captions)
    /\ download.failed = Len(download.errors)
    /\ download.successful + download.failed = Len(download.attempts)

\* the call has ended; a manual caption was stored, so the auto-generated
\* caption of its language was passed over, and another auto-generated
\* caption was attempted after a manual download that failed
C29_Witness ==
    /\ pc = "done"
    /\ \E k \in 1..Len(download.attempts) :
          /\ ~download.attempts[k].auto_generated
          /\ download.attempts[k].stored
          /\ \E j \in 1..Len(download.auto_generated) :
                download.auto_generated[j] = download.attempts[k].language_code
    /\ \E k \in 1..Len(download.attempts) :
          /\ download.attempts[k].auto_generated
          /\ download.attempts[k].language_code \in attempted(FALSE)
    /\ download.failed > 0

----------------------------------------------------------------------------
(* The runs of the scripts *)

\* C23: a KeyboardInterrupt raised during the external-fetch phase aborts
\* the whole run: the process exits with a failure status, no later phase
\* is entered, and the files written before stay as they are.
C23_InterruptAbortsRun ==
    /\ [](run.interrupted => (pc = "exit" /\ run.exit_status = 1))
    /\ [][run'.interrupted =>
             (run'.phases = run.phases /\ run'.files = run.files)]_vars

\* the comment phase of scrape_complete_content has ended with an Exception
comment_scraping_failed ==
    /\ run.script = "content-scraper"
    /\ run.phase = "comments"
    /\ outcome' = "raised"

\* C30: once the video info is there, an exception in comment scraping is
\* recorded in results['errors'] and the run goes on: the caption download
\* is attempted next and a run that ends has written the summary report.
\* When the video info fails, the error is recorded and the run ends with
\* no scraping, no caption download and no summary report.
C30_CommentFailureDoesNotStopRun ==
    /\ [][comment_scraping_failed =>
             /\ run'.errors = Append(run.errors, "Comment scraping failed")
             /\ run'.phase = "captions"
             /\ pc' = "list_transcripts"]_vars
    /\ [](/\ run.script = "content-scraper"
          /\ pc = "exit"
          /\ run.exit_status = 0
          /\ Len(run.phases) > 1
          => (/\ run.report
              /\ \E k \in 1..Len(run.phases) : run.phases[k] = "captions"
              /\ \E k \in 1..Len(log) :
                    log[k] = Request("list_transcripts")))
    /\ [][(/\ run.script = "content-scraper"
           /\ run.phase = "video_info"
           /\ pc' = "exit"
           /\ ~run'.interrupted)
          => (/\ run'.errors = <<"Failed to extract video info">>
              /\ run'.phases = <<"video_info">>
              /\ ~run'.report
              /\ run'.files = {}
              /\ yielded' = <<>>
              /\ \A k \in 1..Len(log') : log'[k].api \in {"videos.list", "time.sleep"})]_vars

\* a run that ended after its comment scraping had failed with an HTTP
\* error on a later page
C30_Witness ==
    /\ run.script = "content-scraper"
    /\ pc = "exit"
    /\ scrape.status = 500
    /\ scrape.requests > 1
    /\ run.errors # <<>>
    /\ run.errors[1] = "Comment scraping failed"
    /\ run.report

====
